---- MODULE Spec2Model ----
(***************************************************************************)
(* The cache of pdfmagick (core/cache_manager.py): CacheManager with its   *)
(* document map, its render cache (an insertion-ordered dict with a bulk   *)
(* eviction), its filter cache (LRUCache: a dict and an access-order list) *)
(* and its hit/miss/eviction counters.                                     *)
(*                                                                         *)
(* Strings are sequences of one-token strings, so that str.startswith and  *)
(* the f-string that builds a filter key are computed as the code computes *)
(* them.  A Python dict that the code iterates in insertion order is a     *)
(* sequence of [key, image] entries.                                       *)
(*                                                                         *)
(* Four specifications share the methods:                                  *)
(*   Spec         every method in any order on a few keys;                 *)
(*   SpecRender   a walk over the pages of one document that fills the     *)
(*                render cache past its limit of 200;                      *)
(*   SpecFilter   the same walk through the filter cache of 100 entries;   *)
(*   SpecThreads  two threads inside the methods, one statement a step.    *)
(*                                                                         *)
(* Two more specifications apply the pure functions of the export:         *)
(*   SpecLayout   the cut-and-stack arrangement, the padding to an exact   *)
(*                page size and the 2-up sheet (src/app.py,                *)
(*                core/image_filters.py);                                  *)
(*   SpecPipeline apply_all_adjustments on one sample of an image          *)
(*                (core/image_filters.py).                                 *)
(*                                                                         *)
(* Five more follow the rest of the program:                               *)
(*   SpecAuto      the two "Auto Enhance" buttons of src/app.py;           *)
(*   SpecApi       the handlers of api/main.py on the one CacheManager,    *)
(*                 with PDFProcessor.get_page_as_image;                    *)
(*   SpecExport    "Generate PDF" of src/app.py and images_to_pdf;         *)
(*   SpecHms       adjust_highlights_midtones_shadows on one sample;       *)
(*   SpecSingleton two threads constructing the CacheManager, one          *)
(*                 statement a step.                                       *)
(***************************************************************************)
EXTENDS Integers, Sequences, FiniteSets, TLC

\* ------------------------------------------------------------------ bounds

\* Lookups (hits + misses) one behaviour performs.
MaxLookups == 1
\* Render-cache evictions counted before the page walk stops inserting.
MaxEvictions == 100
\* Filter-cache capacity evictions before the page walk stops inserting.
MaxLruEvictions == 2
\* Pages 0..HotPages-1 of a document are looked up again and updated.
HotPages == 2
\* The calls the two threads make between them
MaxThreadCalls == 3
\* The longest document the layout functions are applied to
MaxPages == 48
\* The page numbers and the first odd pages the padding is applied with
MaxPageNum == 6
MaxFirstOdd == 4
\* The pages of an uploaded document
PageCount == 2
\* Cache lookups (hits + misses) the handlers perform in one behaviour
MaxApiLookups == 3

\* ------------------------------------------------------- program constants

\* `if len(self._render_cache) > 200`
RenderLimit == 200
\* `list(self._render_cache.keys())[:50]`
EvictBatch == 50
\* `LRUCache(maxsize=100)`
maxsize == 100

None == "None"

\* ------------------------------------------------------------ Python lists

Min(a, b) == IF a < b THEN a ELSE b

\* x in lst
Contains(lst, x) == \E i \in 1..Len(lst) : lst[i] = x

\* lst.index(x), for x in lst: the first place x is at
IndexOf(lst, x) ==
    CHOOSE i \in 1..Len(lst) : lst[i] = x /\ \A j \in 1..(i - 1) : lst[j] # x

\* lst without its element at position i
DeleteAt(lst, i) == SubSeq(lst, 1, i - 1) \o SubSeq(lst, i + 1, Len(lst))

\* list.remove(x): the first occurrence goes; ValueError when x is absent
\* (the caller records the error and the list is left as it was).
ListRemove(lst, x) == IF Contains(lst, x) THEN DeleteAt(lst, IndexOf(lst, x)) ELSE lst

\* s.startswith(prefix)
StartsWith(s, prefix) == Len(s) >= Len(prefix) /\ SubSeq(s, 1, Len(prefix)) = prefix

\* ---------------------------------------------------------------- str(int)

Digit == <<"0", "1", "2", "3", "4", "5", "6", "7", "8", "9">>

RECURSIVE Str(_)
Str(n) == IF n < 10 THEN <<Digit[n + 1]>> ELSE Str(n \div 10) \o <<Digit[(n % 10) + 1]>>

\* ----------------------------------------------------- insertion-ordered dict

\* list(d.keys())
DictKeys(d) == [i \in 1..Len(d) |-> d[i].key]

\* key in d
DictHas(d, key) == \E i \in 1..Len(d) : d[i].key = key

\* d[key], for key in d
DictGet(d, key) == d[CHOOSE i \in 1..Len(d) : d[i].key = key].image

\* d[key] = image: an existing key keeps its place, a new key goes last
DictSet(d, key, image) ==
    IF DictHas(d, key)
    THEN [i \in 1..Len(d) |-> IF d[i].key = key THEN [key |-> key, image |-> image] ELSE d[i]]
    ELSE Append(d, [key |-> key, image |-> image])

\* ------------------------------------------------- json.dumps and the digest

\* The twelve fields of FilterSettings in the order sorted() gives their names.
SortedFields ==
    <<"black_point", "brightness", "contrast", "exposure", "gamma", "highlights",
      "midtones", "saturation", "shadows", "sharpness", "vibrance", "white_point">>

\* A settings value is a dict: a sequence of [field, value] items in insertion
\* order, a value being [kind, n]: the int n, or the float n.0.
FieldRank(f) == IndexOf(SortedFields, f)

\* sorted(d.items()): the items by field name (insertion sort on the name)
RECURSIVE SortItems(_)
SortItems(items) ==
    IF Len(items) <= 1 THEN items
    ELSE LET rest == SortItems(Tail(items))
             x == Head(items)
             before == SelectSeq(rest, LAMBDA y : FieldRank(y.field) < FieldRank(x.field))
             after == SelectSeq(rest, LAMBDA y : ~(FieldRank(y.field) < FieldRank(x.field)))
         IN before \o <<x>> \o after

\* json's text of a number: 10 for the int, 10.0 for the float, a sign first
JsonNumber(v) ==
    (IF v.n < 0 THEN <<"-">> ELSE <<>>)
    \o Str(IF v.n < 0 THEN -v.n ELSE v.n)
    \o (IF v.kind = "float" THEN <<".", "0">> ELSE <<>>)

\* One item: "field": number
JsonItem(item) == <<"q", item.field, "q", ":", " ">> \o JsonNumber(item.value)

RECURSIVE JsonItems(_)
JsonItems(items) ==
    IF Len(items) = 0 THEN <<>>
    ELSE IF Len(items) = 1 THEN JsonItem(items[1])
    ELSE JsonItem(items[1]) \o <<",", " ">> \o JsonItems(Tail(items))

\* json.dumps(filter_settings): the items in insertion order
JsonDumpsUnsorted(filter_settings) == <<"{">> \o JsonItems(filter_settings) \o <<"}">>

\* json.dumps(filter_settings, sort_keys=True)
JsonDumps(filter_settings) == <<"{">> \o JsonItems(SortItems(filter_settings)) \o <<"}">>

\* The characters a serialized settings value is made of, for their codes.
Alphabet ==
    <<"{", "}", "q", ":", " ", ",", "-", ".">> \o Digit \o SortedFields

\* The digest: a deterministic function of the text alone (a polynomial hash over
\* the character codes stands for MD5).
RECURSIVE Digest(_, _)
Digest(text, h) ==
    IF Len(text) = 0 THEN h
    ELSE Digest(Tail(text), (h * 31 + IndexOf(Alphabet, Head(text))) % 65521)

HexDigit == <<"0", "1", "2", "3", "4", "5", "6", "7", "8", "9", "a", "b", "c", "d", "e", "f">>

\* hexdigest(): the digest in hexadecimal, most significant digit first
HexDigest(h) ==
    <<HexDigit[((h \div 4096) % 16) + 1], HexDigit[((h \div 256) % 16) + 1],
      HexDigit[((h \div 16) % 16) + 1], HexDigit[(h % 16) + 1]>>

\* hashlib.md5(text.encode()).hexdigest()[:12]
Md5Hex(text) == HexDigest(Digest(text, 7))

Float(n) == [kind |-> "float", n |-> n]

\* The settings values the callers pass: the same value twice, its fields inserted
\* in either order, and another value.
Bright == <<[field |-> "brightness", value |-> Float(10)],
            [field |-> "contrast", value |-> Float(0)]>>
BrightSwapped == <<[field |-> "contrast", value |-> Float(0)],
                   [field |-> "brightness", value |-> Float(10)]>>
Flat == <<[field |-> "brightness", value |-> Float(0)],
          [field |-> "contrast", value |-> Float(0)]>>

SettingsValues == <<Bright, BrightSwapped, Flat>>

\* CacheManager._hash_filters of each of SettingsValues, computed once
Fingerprints ==
    <<Md5Hex(JsonDumps(SettingsValues[1])), Md5Hex(JsonDumps(SettingsValues[2])),
      Md5Hex(JsonDumps(SettingsValues[3]))>>

\* CacheManager._hash_filters
HashFilters(filter_settings) ==
    IF Contains(SettingsValues, filter_settings)
    THEN Fingerprints[IndexOf(SettingsValues, filter_settings)]
    ELSE Md5Hex(JsonDumps(filter_settings))

\* f"{pdf_id}:{page_num}:{dpi}:{filter_hash}"
FilterKey(pdf_id, page_num, dpi, filter_settings) ==
    pdf_id \o <<":">> \o Str(page_num) \o <<":">> \o Str(dpi) \o <<":">>
    \o HashFilters(filter_settings)

\* (pdf_id, page_num, dpi)
RenderKey(pdf_id, page_num, dpi) == <<pdf_id, page_num, dpi>>

\* del d[key]
DictDel(d, key) == SelectSeq(d, LAMBDA e : e.key # key)

\* ----------------------------------------------------------------- LRUCache
\* An LRUCache is its two fields: cache (self._cache, a dict) and order
\* (self._access_order, a list).  Each method gives the fields it leaves, its
\* result and the exception it raised (None: it returned).

LruResult(cache, order, result, raised) ==
    [cache |-> cache, order |-> order, result |-> result, raised |-> raised]

\* LRUCache.get that leaves the access order as it is
LruGetNoPromote(cache, order, key) ==
    IF DictHas(cache, key)
    THEN LruResult(cache, order, DictGet(cache, key), None)
    ELSE LruResult(cache, order, None, None)

\* LRUCache.get
LruGet(cache, order, key) ==
    IF DictHas(cache, key)
    THEN IF Contains(order, key)
         THEN LruResult(cache, Append(ListRemove(order, key), key), DictGet(cache, key), None)
         ELSE LruResult(cache, order, None, "ValueError")
    ELSE LruResult(cache, order, None, None)

\* LRUCache.set that evicts the most recently used entry: pop() for pop(0)
LruSetEvictNewest(cache, order, key, value) ==
    IF DictHas(cache, key)
    THEN LruResult(DictSet(cache, key, value), Append(ListRemove(order, key), key), None, None)
    ELSE IF Len(cache) >= maxsize
    THEN LruResult(DictSet(DictDel(cache, order[Len(order)]), key, value),
                   Append(SubSeq(order, 1, Len(order) - 1), key), None, None)
    ELSE LruResult(DictSet(cache, key, value), Append(order, key), None, None)

\* LRUCache.set
LruSet(cache, order, key, value) ==
    IF DictHas(cache, key)
    THEN IF Contains(order, key)
         THEN LruResult(DictSet(cache, key, value), Append(ListRemove(order, key), key), None, None)
         ELSE LruResult(cache, order, None, "ValueError")
    ELSE IF Len(cache) >= maxsize
    THEN IF Len(order) = 0
         THEN LruResult(cache, order, None, "IndexError")
         ELSE IF ~DictHas(cache, Head(order))
         THEN LruResult(cache, Tail(order), None, "KeyError")
         ELSE LruResult(DictSet(DictDel(cache, Head(order)), key, value),
                        Append(Tail(order), key), None, None)
    ELSE LruResult(DictSet(cache, key, value), Append(order, key), None, None)

\* keys_to_remove that compares the whole key with the id
LruKeysToRemoveWholeKey(cache, pdf_id) ==
    SelectSeq(DictKeys(cache), LAMBDA k : k = pdf_id)

\* keys_to_remove of LRUCache.clear_pdf
LruKeysToRemove(cache, pdf_id) ==
    SelectSeq(DictKeys(cache), LAMBDA k : StartsWith(k, pdf_id \o <<":">>))

\* The loop with `del self._cache[key]` alone: the list keeps the keys
LruRemoveKeysDictOnly(cache, order, keys) ==
    LruResult(SelectSeq(cache, LAMBDA e : ~Contains(keys, e.key)), order, None, None)

\* The loop of LRUCache.clear_pdf over keys_to_remove: each key is deleted from
\* the dict, then removed from the list; the loop ends with ValueError at the
\* first key the list does not hold.
LruRemoveKeys(cache, order, keys) ==
    LET listed == {order[i] : i \in 1..Len(order)}
        absent == {i \in 1..Len(keys) : keys[i] \notin listed}
        stop == IF absent = {} THEN Len(keys) + 1
                ELSE CHOOSE i \in absent : \A j \in absent : i <= j
        deleted == {keys[i] : i \in 1..Min(stop, Len(keys))}
        removed_keys == {keys[i] : i \in 1..(stop - 1)}
        first(i) == \A j \in 1..(i - 1) : order[j] # order[i]
        kept == {i \in 1..Len(order) : ~(order[i] \in removed_keys /\ first(i))}
        at(r) == CHOOSE i \in kept : Cardinality({j \in kept : j <= i}) = r
    IN LruResult(SelectSeq(cache, LAMBDA e : e.key \notin deleted),
                 IF Cardinality(listed) = Len(order)
                 THEN SelectSeq(order, LAMBDA x : x \notin removed_keys)
                 ELSE [r \in 1..Cardinality(kept) |-> order[at(r)]],
                 None,
                 IF absent = {} THEN None ELSE "ValueError")

\* LRUCache.clear_pdf
LruClearPdf(cache, order, pdf_id) ==
    LruRemoveKeys(cache, order, LruKeysToRemove(cache, pdf_id))

\* ------------------------------------------------------------- render cache

\* `len(self._render_cache) > 200`
RenderCacheFull(cache) == Len(cache) > RenderLimit

\* oldest_keys of set_rendered_page
OldestKeys(cache) == SubSeq(DictKeys(cache), 1, Min(EvictBatch, Len(cache)))

\* The render cache set_rendered_page leaves
RenderSet(cache, key, image) ==
    IF RenderCacheFull(cache)
    THEN DictSet(SelectSeq(cache, LAMBDA e : ~Contains(OldestKeys(cache), e.key)), key, image)
    ELSE DictSet(cache, key, image)

\* How often set_rendered_page runs `self._cache_stats['evictions'] += 1`
RenderEvictions(cache) == IF RenderCacheFull(cache) THEN Len(OldestKeys(cache)) ELSE 0

\* keys_to_remove of clear_pdf_cache gone from the render cache
RenderClearPdf(cache, pdf_id) == SelectSeq(cache, LAMBDA e : e.key[1] # pdf_id)

\* ------------------------------------------------------------------- state

VARIABLES
    pdf_cache,      \* CacheManager._pdf_cache: pdf_id -> processor
    render_cache,   \* CacheManager._render_cache: entries in insertion order
    filter_cache,   \* LRUCache._cache: entries in insertion order
    access_order,   \* LRUCache._access_order
    cache_stats,    \* CacheManager._cache_stats
    last,           \* history: the call that ended last, its result and exception
    used,           \* history: the filter keys by their last use, the latest last
    removed,        \* history: entries deleted by capacity eviction since clear_all
    th,             \* the threads inside a cache method, and where each one is
    hist,           \* history of the threads' calls: calls begun, lookups returned,
                    \* clear_all begun, calls that raised
    cls             \* the class CacheManager and the attributes of its instance

vars == <<pdf_cache, render_cache, filter_cache, access_order, cache_stats, last, used,
          removed, th, hist, cls>>

Threads == {"t1", "t2"}

\* A thread: the method it is in (op) and its arguments, the statement it is at
\* (pc), and its locals: tmp (the counter it read), keys (oldest_keys,
\* keys_to_remove or lru_key), result, and stale (clear_all has replaced the
\* _cache_stats dict this thread holds a reference to).
Idle == [pc |-> "idle", op |-> "", pdf_id |-> <<>>, key |-> <<>>, image |-> None, tmp |-> 0,
         keys |-> <<>>, result |-> None, stale |-> FALSE]

\* A call as `last` records it: gone is the number of entries it deleted.
Call(op, pdf_id, key, result, raised, gone) ==
    [op |-> op, pdf_id |-> pdf_id, key |-> key, result |-> result, raised |-> raised,
     gone |-> gone]

\* CacheManager.__init__ and LRUCache.__init__
Init ==
    /\ pdf_cache = <<>>
    /\ render_cache = <<>>
    /\ filter_cache = <<>>
    /\ access_order = <<>>
    /\ cache_stats = [hits |-> 0, misses |-> 0, evictions |-> 0]
    /\ last = Call("init", <<>>, <<>>, None, None, 0)
    /\ used = <<>>
    /\ removed = [render |-> 0, filter |-> 0]
    /\ th = [t \in Threads |-> Idle]
    /\ hist = [calls |-> 0, lookups |-> 0, clears |-> 0, errors |-> 0]
    /\ cls = [instance |-> "obj", lock |-> None, initialized |-> <<TRUE>>,
              attrs |-> {"_pdf_cache", "_render_cache", "_filter_cache", "_cache_stats"},
              inits |-> 1, stored |-> {}]

\* ----------------------------------------------------- history: last use

\* The keys in the order of their last use, key k used now.
Touch(u, k) == Append(SelectSeq(u, LAMBDA x : x # k), k)

\* The keys of `u` that are still cached.
Forget(u, cache) ==
    LET keys == {cache[i].key : i \in 1..Len(cache)}
    IN SelectSeq(u, LAMBDA x : x \in keys)

\* The entries of `before` that are gone from `after`.
Gone(before, after) ==
    LET left == {after[i].key : i \in 1..Len(after)}
    IN Cardinality({i \in 1..Len(before) : before[i].key \notin left})

\* ------------------------------------------------ CacheManager's methods

\* CacheManager.get_pdf
GetPdf(pdf_id) ==
    /\ last' = Call("get_pdf", pdf_id, <<>>,
                    IF DictHas(pdf_cache, pdf_id) THEN DictGet(pdf_cache, pdf_id) ELSE None, None, 0)
    /\ UNCHANGED <<pdf_cache, render_cache, filter_cache, access_order, cache_stats, used,
                   removed, th, hist, cls>>

\* CacheManager.set_pdf
SetPdf(pdf_id, pdf_processor) ==
    /\ pdf_cache' = DictSet(pdf_cache, pdf_id, pdf_processor)
    /\ last' = Call("set_pdf", pdf_id, <<>>, None, None, 0)
    /\ UNCHANGED <<render_cache, filter_cache, access_order, cache_stats, used, removed, th, hist, cls>>

\* CacheManager.get_rendered_page
GetRenderedPage(pdf_id, page_num, dpi) ==
    LET key == RenderKey(pdf_id, page_num, dpi)
        hit == DictHas(render_cache, key)
    IN /\ cache_stats' = IF hit THEN [cache_stats EXCEPT !.hits = @ + 1]
                                ELSE [cache_stats EXCEPT !.misses = @ + 1]
       /\ last' = Call("get_rendered_page", pdf_id, key,
                       IF hit THEN DictGet(render_cache, key) ELSE None, None, 0)
       /\ UNCHANGED <<pdf_cache, render_cache, filter_cache, access_order, used, removed, th, hist, cls>>

\* CacheManager.set_rendered_page
SetRenderedPage(pdf_id, page_num, dpi, image) ==
    LET key == RenderKey(pdf_id, page_num, dpi)
    IN /\ render_cache' = RenderSet(render_cache, key, image)
       /\ cache_stats' = [cache_stats EXCEPT !.evictions = @ + RenderEvictions(render_cache)]
       /\ removed' = [removed EXCEPT !.render =
                         @ + IF RenderCacheFull(render_cache)
                             THEN Len(OldestKeys(render_cache)) ELSE 0]
       /\ last' = Call("set_rendered_page", pdf_id, key, None, None,
                       IF RenderCacheFull(render_cache) THEN Len(OldestKeys(render_cache)) ELSE 0)
       /\ UNCHANGED <<pdf_cache, filter_cache, access_order, used, th, hist, cls>>

\* CacheManager.get_filtered_image
GetFilteredImage(pdf_id, page_num, dpi, filter_settings) ==
    LET key == FilterKey(pdf_id, page_num, dpi, filter_settings)
        r == LruGet(filter_cache, access_order, key)
    IN /\ filter_cache' = r.cache
       /\ access_order' = r.order
       /\ cache_stats' = IF r.raised # None THEN cache_stats
                          ELSE IF r.result # None THEN [cache_stats EXCEPT !.hits = @ + 1]
                          ELSE [cache_stats EXCEPT !.misses = @ + 1]
       /\ used' = IF r.raised = None /\ r.result # None THEN Touch(used, key) ELSE used
       /\ last' = Call("get_filtered_image", pdf_id, key, r.result, r.raised, 0)
       /\ UNCHANGED <<pdf_cache, render_cache, removed, th, hist, cls>>

\* CacheManager.set_filtered_image
SetFilteredImage(pdf_id, page_num, dpi, filter_settings, image) ==
    LET key == FilterKey(pdf_id, page_num, dpi, filter_settings)
        r == LruSet(filter_cache, access_order, key, image)
    IN /\ filter_cache' = r.cache
       /\ access_order' = r.order
       /\ used' = IF r.raised = None THEN Touch(Forget(used, r.cache), key) ELSE used
       /\ removed' = [removed EXCEPT !.filter = @ + Gone(filter_cache, r.cache)]
       /\ last' = Call("set_filtered_image", pdf_id, key, None, r.raised,
                       Gone(filter_cache, r.cache))
       /\ UNCHANGED <<pdf_cache, render_cache, cache_stats, th, hist, cls>>

\* CacheManager.clear_pdf_cache
ClearPdfCache(pdf_id) ==
    LET r == LruClearPdf(filter_cache, access_order, pdf_id)
    IN /\ pdf_cache' = DictDel(pdf_cache, pdf_id)
       /\ render_cache' = RenderClearPdf(render_cache, pdf_id)
       /\ filter_cache' = r.cache
       /\ access_order' = r.order
       /\ used' = Forget(used, r.cache)
       /\ last' = Call("clear_pdf_cache", pdf_id, <<>>, None, r.raised,
                       Gone(pdf_cache, DictDel(pdf_cache, pdf_id))
                       + Gone(render_cache, RenderClearPdf(render_cache, pdf_id))
                       + Gone(filter_cache, r.cache))
       /\ UNCHANGED <<cache_stats, removed, th, hist, cls>>

\* CacheManager.clear_all
ClearAll ==
    /\ pdf_cache' = <<>>
    /\ render_cache' = <<>>
    /\ filter_cache' = <<>>
    /\ access_order' = <<>>
    /\ cache_stats' = [hits |-> 0, misses |-> 0, evictions |-> 0]
    /\ used' = <<>>
    /\ removed' = [render |-> 0, filter |-> 0]
    /\ last' = Call("clear_all", <<>>, <<>>, None, None,
                    Len(pdf_cache) + Len(render_cache) + Len(filter_cache))
    /\ UNCHANGED <<th, hist, cls>>

\* ------------------------------------------------------------ the callers
\* What the cache is called with.  upload_pdf stores a document under the hex
\* digest of its bytes; render_page and apply_filters use the ids that are stored;
\* DELETE /api/cache/clear/{pdf_id} passes any string of the URL on.

IdA == <<"a">>
IdB == <<"b">>
\* An id nothing is stored under: document a's id, a colon, page 0
IdA0 == <<"a", ":", "0">>

StoredIds == {IdA, IdB}
AnyIds == {IdA, IdB, IdA0}

Dpi == 72

Lookups == cache_stats.hits + cache_stats.misses

\* ---- Spec: every method, in any order, on a few keys

SmallRenderKeys == {<<IdA, 0>>, <<IdB, 0>>}
\* The filter requests: <<pdf_id, page_num, filter_settings, image>>, the image
\* being the one a set stores.  Bright and BrightSwapped are one settings value.
SmallFilterGets == {<<IdA, 0, Bright>>, <<IdA, 1, Bright>>}
SmallFilterSets == {<<IdA, 0, Bright, "img1">>, <<IdA, 0, BrightSwapped, "img2">>,
                    <<IdA, 1, Bright, "img1">>}

CallSetPdf == \E id \in StoredIds : SetPdf(id, "proc")

CallGetPdf == \E id \in AnyIds : GetPdf(id)

CallGetRendered ==
    /\ Lookups < MaxLookups
    /\ \E k \in SmallRenderKeys : GetRenderedPage(k[1], k[2], Dpi)

CallSetRendered == \E k \in SmallRenderKeys : SetRenderedPage(k[1], k[2], Dpi, "raster")

CallGetFiltered ==
    /\ Lookups < MaxLookups
    /\ \E k \in SmallFilterGets : GetFilteredImage(k[1], k[2], Dpi, k[3])

CallSetFiltered ==
    \E k \in SmallFilterSets : SetFilteredImage(k[1], k[2], Dpi, k[3], k[4])

CallClearPdf == \E id \in AnyIds : ClearPdfCache(id)

CallClearAll == ClearAll

Next ==
    \/ CallSetPdf
    \/ CallGetPdf
    \/ CallGetRendered
    \/ CallSetRendered
    \/ CallGetFiltered
    \/ CallSetFiltered
    \/ CallClearPdf
    \/ CallClearAll

Spec == Init /\ [][Next]_vars

\* ---- SpecRender: a viewer pages through document a, rendering each page once

\* The lowest page from p on that is not among `pages`
FirstMissing(pages, p) ==
    LET missing == {q \in p..(p + Cardinality(pages)) : q \notin pages}
    IN CHOOSE q \in missing : \A r \in missing : q <= r

\* The pages of document a the render cache holds
RenderedPages == {render_cache[i].key[2] : i \in 1..Len(render_cache)}

HotPageSet == 0..(HotPages - 1)

WalkSetRendered ==
    /\ cache_stats.evictions < MaxEvictions
    /\ SetRenderedPage(IdA, FirstMissing(RenderedPages, 0), Dpi, "raster")

WalkRenderAgain ==
    /\ cache_stats.evictions < MaxEvictions
    /\ \E p \in HotPageSet :
          /\ DictHas(render_cache, RenderKey(IdA, p, Dpi))
          /\ SetRenderedPage(IdA, p, Dpi, "raster")

WalkGetRendered ==
    /\ Lookups < MaxLookups
    /\ \E p \in HotPageSet : GetRenderedPage(IdA, p, Dpi)

WalkClearPdf == ClearPdfCache(IdA)

NextRender ==
    \/ WalkSetRendered
    \/ WalkRenderAgain
    \/ WalkGetRendered
    \/ WalkClearPdf
    \/ CallClearAll

SpecRender == Init /\ [][NextRender]_vars

\* ---- SpecFilter: the viewer filters each page of document a once, and comes
\* back to its first pages when the cache is full

FilterKeys == {filter_cache[i].key : i \in 1..Len(filter_cache)}

\* int(digits)
RECURSIVE ParseInt(_)
ParseInt(digits) ==
    IF digits = <<>> THEN 0
    ELSE 10 * ParseInt(SubSeq(digits, 1, Len(digits) - 1)) + IndexOf(Digit, digits[Len(digits)]) - 1

\* The page_num in a filter key of document a: the digits between "a:" and the
\* next colon
PageOf(key) ==
    LET rest == SubSeq(key, Len(IdA) + 2, Len(key))
    IN ParseInt(SubSeq(rest, 1, IndexOf(rest, ":") - 1))

\* The pages of document a that the filter cache holds
FilteredPages == {PageOf(filter_cache[i].key) : i \in 1..Len(filter_cache)}

\* The viewer comes back to a page once the cache is full
HotWindow == Len(filter_cache) >= maxsize

WalkSetFiltered ==
    /\ removed.filter < MaxLruEvictions
    /\ SetFilteredImage(IdA, FirstMissing(FilteredPages, 0), Dpi, Bright, "img1")

WalkFilterAgain ==
    /\ HotWindow
    /\ \E p \in HotPageSet :
          /\ DictHas(filter_cache, FilterKey(IdA, p, Dpi, Bright))
          /\ SetFilteredImage(IdA, p, Dpi, BrightSwapped, "img2")

WalkGetFiltered ==
    /\ HotWindow
    /\ Lookups < MaxLookups
    /\ \E p \in HotPageSet : GetFilteredImage(IdA, p, Dpi, Bright)

NextFilter ==
    \/ WalkSetFiltered
    \/ WalkFilterAgain
    \/ WalkGetFiltered
    \/ WalkClearPdf
    \/ CallClearAll

SpecFilter == Init /\ [][NextFilter]_vars

\* ---- SpecThreads: two threads call the methods of the one CacheManager.
\* No method takes a lock (_lock guards only the creation of the instance), so
\* a thread may be preempted between any two statements that touch a shared
\* dict, list or counter.  One step is one such statement.

\* What a statement of thread t finds and leaves: the shared objects, the
\* thread's locals (me), whether the method ended, the exception it raised,
\* and whether _cache_stats was replaced by a new dict.
Scene(t) ==
    [pdf |-> pdf_cache, render |-> render_cache, filter |-> filter_cache,
     order |-> access_order, stats |-> cache_stats, me |-> th[t],
     ended |-> FALSE, raised |-> None, replaced |-> FALSE]

At(s, pc) == [s EXCEPT !.me.pc = pc]

Raise(s, error) == [s EXCEPT !.ended = TRUE, !.raised = error]

Return(s, result) == [s EXCEPT !.ended = TRUE, !.me.result = result]

\* `self._cache_stats[field] += 1`, its first half: the dict and the counter are read
ReadStat(s, field, pc) ==
    [s EXCEPT !.me.tmp = s.stats[field], !.me.stale = FALSE, !.me.pc = pc]

\* `self._cache_stats[field] += 1`, its second half: the sum is stored in the dict
\* that was read, which is no longer self._cache_stats if clear_all replaced it
WriteStat(s, field) ==
    IF s.me.stale THEN s ELSE [s EXCEPT !.stats[field] = s.me.tmp + 1]

\* The statements between the two halves of a `+= 1`
WritePcs == {"hits_store", "misses_store", "evictions_store"}

\* CacheManager.get_rendered_page, statement by statement
StepGetRendered(s) ==
    CASE s.me.pc = "start" ->
           IF DictHas(s.render, s.me.key) THEN At(s, "hits_load") ELSE At(s, "misses_load")
      [] s.me.pc = "hits_load" -> ReadStat(s, "hits", "hits_store")
      [] s.me.pc = "hits_store" -> At(WriteStat(s, "hits"), "return")
      [] s.me.pc = "return" ->
           IF DictHas(s.render, s.me.key)
           THEN Return(s, DictGet(s.render, s.me.key))
           ELSE Raise(s, "KeyError")
      [] s.me.pc = "misses_load" -> ReadStat(s, "misses", "misses_store")
      [] s.me.pc = "misses_store" -> Return(WriteStat(s, "misses"), None)

\* CacheManager.set_rendered_page, statement by statement
StepSetRendered(s) ==
    CASE s.me.pc = "start" ->
           IF RenderCacheFull(s.render) THEN At(s, "oldest_keys") ELSE At(s, "store")
      [] s.me.pc = "oldest_keys" ->
           [s EXCEPT !.me.keys = OldestKeys(s.render), !.me.pc = "del"]
      [] s.me.pc = "del" ->
           IF DictHas(s.render, Head(s.me.keys))
           THEN [s EXCEPT !.render = DictDel(s.render, Head(s.me.keys)),
                          !.me.pc = "evictions_load"]
           ELSE Raise(s, "KeyError")
      [] s.me.pc = "evictions_load" -> ReadStat(s, "evictions", "evictions_store")
      [] s.me.pc = "evictions_store" ->
           [WriteStat(s, "evictions") EXCEPT
               !.me.keys = Tail(s.me.keys),
               !.me.pc = IF Len(s.me.keys) > 1 THEN "del" ELSE "store"]
      [] s.me.pc = "store" ->
           Return([s EXCEPT !.render = DictSet(s.render, s.me.key, s.me.image)], None)

\* CacheManager.get_filtered_image with LRUCache.get, statement by statement
StepGetFiltered(s) ==
    CASE s.me.pc = "start" ->
           IF DictHas(s.filter, s.me.key) THEN At(s, "remove") ELSE At(s, "misses_load")
      [] s.me.pc = "remove" ->
           IF Contains(s.order, s.me.key)
           THEN [s EXCEPT !.order = ListRemove(s.order, s.me.key), !.me.pc = "append"]
           ELSE Raise(s, "ValueError")
      [] s.me.pc = "append" ->
           [s EXCEPT !.order = Append(s.order, s.me.key), !.me.pc = "return"]
      [] s.me.pc = "return" ->
           IF DictHas(s.filter, s.me.key)
           THEN [s EXCEPT !.me.result = DictGet(s.filter, s.me.key), !.me.pc = "hits_load"]
           ELSE Raise(s, "KeyError")
      [] s.me.pc = "hits_load" -> ReadStat(s, "hits", "hits_store")
      [] s.me.pc = "hits_store" -> Return(WriteStat(s, "hits"), s.me.result)
      [] s.me.pc = "misses_load" -> ReadStat(s, "misses", "misses_store")
      [] s.me.pc = "misses_store" -> Return(WriteStat(s, "misses"), None)

\* CacheManager.set_filtered_image with LRUCache.set, statement by statement
StepSetFiltered(s) ==
    CASE s.me.pc = "start" ->
           IF DictHas(s.filter, s.me.key) THEN At(s, "remove") ELSE At(s, "len")
      [] s.me.pc = "remove" ->
           IF Contains(s.order, s.me.key)
           THEN [s EXCEPT !.order = ListRemove(s.order, s.me.key), !.me.pc = "store"]
           ELSE Raise(s, "ValueError")
      [] s.me.pc = "len" ->
           IF Len(s.filter) >= maxsize THEN At(s, "pop") ELSE At(s, "store")
      [] s.me.pc = "pop" ->
           IF Len(s.order) = 0
           THEN Raise(s, "IndexError")
           ELSE [s EXCEPT !.order = Tail(s.order), !.me.keys = <<Head(s.order)>>,
                          !.me.pc = "del"]
      [] s.me.pc = "del" ->
           IF DictHas(s.filter, Head(s.me.keys))
           THEN [s EXCEPT !.filter = DictDel(s.filter, Head(s.me.keys)), !.me.pc = "store"]
           ELSE Raise(s, "KeyError")
      [] s.me.pc = "store" ->
           [s EXCEPT !.filter = DictSet(s.filter, s.me.key, s.me.image), !.me.pc = "append"]
      [] s.me.pc = "append" ->
           Return([s EXCEPT !.order = Append(s.order, s.me.key)], None)

\* CacheManager.set_pdf: one statement
StepSetPdf(s) == Return([s EXCEPT !.pdf = DictSet(s.pdf, s.me.pdf_id, s.me.image)], None)

\* `for key in keys_to_remove` after the key at the head is done
NextKey(s, again, after) ==
    [s EXCEPT !.me.keys = Tail(s.me.keys),
              !.me.pc = IF Len(s.me.keys) > 1 THEN again ELSE after]

\* CacheManager.clear_pdf_cache with LRUCache.clear_pdf, statement by statement.
\* A list comprehension over a dict takes its iterator (which notes the size of
\* the dict), then walks it: the walk raises RuntimeError if the size changed.
StepClearPdf(s) ==
    CASE s.me.pc = "start" ->
           IF DictHas(s.pdf, s.me.pdf_id) THEN At(s, "del_pdf") ELSE At(s, "render_iter")
      [] s.me.pc = "del_pdf" ->
           IF DictHas(s.pdf, s.me.pdf_id)
           THEN [s EXCEPT !.pdf = DictDel(s.pdf, s.me.pdf_id), !.me.pc = "render_iter"]
           ELSE Raise(s, "KeyError")
      [] s.me.pc = "render_iter" ->
           [s EXCEPT !.me.tmp = Len(s.render), !.me.pc = "render_keys"]
      [] s.me.pc = "render_keys" ->
           IF Len(s.render) # s.me.tmp
           THEN Raise(s, "RuntimeError")
           ELSE LET keys == DictKeys(SelectSeq(s.render, LAMBDA e : e.key[1] = s.me.pdf_id))
                IN [s EXCEPT !.me.keys = keys,
                             !.me.pc = IF keys = <<>> THEN "filter_iter" ELSE "del_render"]
      [] s.me.pc = "del_render" ->
           IF DictHas(s.render, Head(s.me.keys))
           THEN NextKey([s EXCEPT !.render = DictDel(s.render, Head(s.me.keys))],
                        "del_render", "filter_iter")
           ELSE Raise(s, "KeyError")
      [] s.me.pc = "filter_iter" ->
           [s EXCEPT !.me.tmp = Len(s.filter), !.me.pc = "filter_keys"]
      [] s.me.pc = "filter_keys" ->
           IF Len(s.filter) # s.me.tmp
           THEN Raise(s, "RuntimeError")
           ELSE LET keys == LruKeysToRemove(s.filter, s.me.pdf_id)
                IN IF keys = <<>> THEN Return(s, None)
                   ELSE [s EXCEPT !.me.keys = keys, !.me.pc = "del_filter"]
      [] s.me.pc = "del_filter" ->
           IF DictHas(s.filter, Head(s.me.keys))
           THEN [s EXCEPT !.filter = DictDel(s.filter, Head(s.me.keys)), !.me.pc = "remove"]
           ELSE Raise(s, "KeyError")
      [] s.me.pc = "remove" ->
           IF ~Contains(s.order, Head(s.me.keys))
           THEN Raise(s, "ValueError")
           ELSE LET removed_one == [s EXCEPT !.order = ListRemove(s.order, Head(s.me.keys))]
                IN IF Len(s.me.keys) > 1
                   THEN NextKey(removed_one, "del_filter", "del_filter")
                   ELSE Return(removed_one, None)

\* CacheManager.clear_all with LRUCache.clear, statement by statement
StepClearAll(s) ==
    CASE s.me.pc = "start" -> [s EXCEPT !.pdf = <<>>, !.me.pc = "render_clear"]
      [] s.me.pc = "render_clear" -> [s EXCEPT !.render = <<>>, !.me.pc = "filter_clear"]
      [] s.me.pc = "filter_clear" -> [s EXCEPT !.filter = <<>>, !.me.pc = "order_clear"]
      [] s.me.pc = "order_clear" -> [s EXCEPT !.order = <<>>, !.me.pc = "stats"]
      [] s.me.pc = "stats" ->
           Return([s EXCEPT !.stats = [hits |-> 0, misses |-> 0, evictions |-> 0],
                            !.replaced = TRUE], None)

LookupOps == {"get_rendered_page", "get_filtered_image"}

\* Thread t has run one statement and left s
Commit(t, s) ==
    /\ pdf_cache' = s.pdf
    /\ render_cache' = s.render
    /\ filter_cache' = s.filter
    /\ access_order' = s.order
    /\ cache_stats' = s.stats
    /\ th' = [u \in Threads |->
                IF u = t THEN (IF s.ended THEN Idle ELSE s.me)
                ELSE IF s.replaced /\ th[u].pc \in WritePcs
                THEN [th[u] EXCEPT !.stale = TRUE]
                ELSE th[u]]
    /\ last' = IF s.ended
               THEN Call(th[t].op, th[t].pdf_id, th[t].key,
                         IF s.raised = None THEN s.me.result ELSE None, s.raised, 0)
               ELSE last
    /\ hist' = IF s.ended /\ s.raised # None THEN [hist EXCEPT !.errors = @ + 1]
               ELSE IF s.ended /\ th[t].op \in LookupOps THEN [hist EXCEPT !.lookups = @ + 1]
               ELSE hist
    /\ UNCHANGED <<used, removed, cls>>

\* The calls the threads make: <<method, pdf_id, key, image>>
ThreadCalls ==
    {<<"set_pdf", IdA, <<>>, "proc">>,
     <<"get_rendered_page", IdA, RenderKey(IdA, 0, Dpi), None>>,
     <<"set_rendered_page", IdA, RenderKey(IdA, 0, Dpi), "raster">>,
     <<"get_filtered_image", IdA, FilterKey(IdA, 0, Dpi, Bright), None>>,
     <<"set_filtered_image", IdA, FilterKey(IdA, 0, Dpi, Bright), "img1">>,
     <<"clear_pdf_cache", IdA, <<>>, None>>,
     <<"clear_all", <<>>, <<>>, None>>}

\* A thread enters a method
ThreadCall(t) ==
    /\ th[t].pc = "idle"
    /\ hist.calls < MaxThreadCalls
    /\ \E c \in ThreadCalls :
          /\ th' = [th EXCEPT ![t] = [Idle EXCEPT !.pc = "start", !.op = c[1],
                                                  !.pdf_id = c[2], !.key = c[3],
                                                  !.image = c[4]]]
          /\ hist' = [hist EXCEPT !.calls = @ + 1,
                                  !.clears = @ + IF c[1] = "clear_all" THEN 1 ELSE 0]
    /\ UNCHANGED <<pdf_cache, render_cache, filter_cache, access_order, cache_stats, last,
                   used, removed, cls>>

Running(t, op) == th[t].pc # "idle" /\ th[t].op = op

ThreadSetPdf(t) == Running(t, "set_pdf") /\ Commit(t, StepSetPdf(Scene(t)))

ThreadGetRendered(t) ==
    Running(t, "get_rendered_page") /\ Commit(t, StepGetRendered(Scene(t)))

ThreadSetRendered(t) ==
    Running(t, "set_rendered_page") /\ Commit(t, StepSetRendered(Scene(t)))

ThreadGetFiltered(t) ==
    Running(t, "get_filtered_image") /\ Commit(t, StepGetFiltered(Scene(t)))

ThreadSetFiltered(t) ==
    Running(t, "set_filtered_image") /\ Commit(t, StepSetFiltered(Scene(t)))

ThreadClearPdf(t) == Running(t, "clear_pdf_cache") /\ Commit(t, StepClearPdf(Scene(t)))

ThreadClearAll(t) == Running(t, "clear_all") /\ Commit(t, StepClearAll(Scene(t)))

NextThreads ==
    \E t \in Threads :
        \/ ThreadCall(t)
        \/ ThreadSetPdf(t)
        \/ ThreadGetRendered(t)
        \/ ThreadSetRendered(t)
        \/ ThreadGetFiltered(t)
        \/ ThreadSetFiltered(t)
        \/ ThreadClearPdf(t)
        \/ ThreadClearAll(t)

SpecThreads == Init /\ [][NextThreads]_vars

\* ---------------------------------------------- page layout (src/app.py)
\* The layout functions are pure: `last` records the function applied, its
\* arguments and its result.

Applied(op, args, result) == [op |-> op, args |-> args, result |-> result, raised |-> None]

\* An Optional[int]: None is the empty sequence, a value x the sequence <<x>>
Blank == <<>>

\* math.ceil(n / d), n >= 0 and d > 0
Ceil(n, d) == IF n % d = 0 THEN n \div d ELSE (n \div d) + 1

\* `page if page < n else None`: the last page is left out
PageOrBlankBelow(page, n) == IF page < n THEN <<page>> ELSE Blank

\* `page if page <= n else None`
PageOrBlank(page, n) == IF page <= n THEN <<page>> ELSE Blank

\* The slots of sheet i with the two back slots appended in the other order
SheetSlotsBackSwapped(i, sheets_count, n) ==
    <<PageOrBlank(2 * i + 1, n), PageOrBlank(2 * sheets_count + 2 * i + 1, n),
      PageOrBlank(2 * i + 2, n), PageOrBlank(2 * sheets_count + 2 * i + 2, n)>>

\* The four output.append of sheet i: front_left, front_right, back_left, back_right
SheetSlots(i, sheets_count, n) ==
    LET front_left == 2 * i + 1
        front_right == 2 * sheets_count + 2 * i + 1
        back_left == 2 * sheets_count + 2 * i + 2
        back_right == 2 * i + 2
    IN <<PageOrBlank(front_left, n), PageOrBlank(front_right, n),
         PageOrBlank(back_left, n), PageOrBlank(back_right, n)>>

\* arrange_pages_cut_and_stack(n): the slots of sheets 0..sheets_count-1 in a row
ArrangePagesCutAndStack(n) ==
    LET sheets_count == Ceil(n, 4)
    IN [k \in 1..(4 * sheets_count) |->
          SheetSlots((k - 1) \div 4, sheets_count, n)[((k - 1) % 4) + 1]]

\* The image a slot gets when the 1-indexed page is used as the index
SlotImageNoShift(slot) == IF slot # Blank THEN <<slot[1] + 1>> ELSE Blank

\* processed_images[idx] of the export, the image of page idx + 1 being that
\* page's number: `arrangement[i] - 1 if arrangement[i] else None`, then
\* `processed_images[idx] if idx is not None else None`
SlotImage(slot) ==
    LET idx == IF slot # Blank /\ slot[1] # 0 THEN <<slot[1] - 1>> ELSE Blank
    IN IF idx # Blank THEN <<idx[1] + 1>> ELSE Blank

\* The Cut & Stack loop of the export: per sheet a front side and a back side,
\* each side a pair of images, left and right
CutAndStackSides(n) ==
    LET arrangement == ArrangePagesCutAndStack(n)
    IN [s \in 1..(Len(arrangement) \div 2) |->
          [left |-> SlotImage(arrangement[2 * s - 1]),
           right |-> SlotImage(arrangement[2 * s])]]

PageCounts == 0..MaxPages

CallArrange ==
    /\ \E n \in PageCounts : last' = Applied("arrange_pages_cut_and_stack", n,
                                             ArrangePagesCutAndStack(n))
    /\ UNCHANGED <<pdf_cache, render_cache, filter_cache, access_order, cache_stats, used,
                   removed, th, hist, cls>>

CallCutAndStackExport ==
    /\ \E n \in PageCounts : last' = Applied("cut_and_stack_export", n, CutAndStackSides(n))
    /\ UNCHANGED <<pdf_cache, render_cache, filter_cache, access_order, cache_stats, used,
                   removed, th, hist, cls>>

\* ---- add_padding_for_exact_size (core/image_filters.py and src/app.py)
\* An image is its size <<width, height>>.  The result names the object that
\* is returned ("input": the argument itself, "padded": the new canvas), its
\* size and the offset at which the input was pasted.
Unpadded(w, h) == [image |-> "input", size |-> <<w, h>>, x_offset |-> 0, y_offset |-> 0]

Max(a, b) == IF a >= b THEN a ELSE b

\* The canvas with the target's size, whatever the image's size
PasteOnTarget(w, h, target_width, target_height, left) ==
    [image |-> "padded", size |-> <<target_width, target_height>>,
     x_offset |-> IF left THEN 0 ELSE target_width - w, y_offset |-> 0]

\* Image.new(final_width, final_height), the choice of x_offset and y_offset,
\* and padded.paste(image, (x_offset, y_offset))
PasteOnCanvas(w, h, target_width, target_height, left) ==
    LET needs_width_padding == w < target_width
        final_width == Max(w, target_width)
        final_height == Max(h, target_height)
    IN [image |-> "padded", size |-> <<final_width, final_height>>,
        x_offset |-> IF needs_width_padding
                       THEN IF left THEN 0 ELSE final_width - w
                       ELSE (final_width - w) \div 2,
        y_offset |-> 0]

\* src/app.py: the left pages are those with page_num % 2 == 1
AppAddPaddingForExactSize(w, h, target_width, target_height, page_num) ==
    IF ~(w < target_width) /\ ~(h < target_height)
      THEN Unpadded(w, h)
      ELSE PasteOnCanvas(w, h, target_width, target_height, page_num % 2 = 1)

\* The alignment taken from the page number alone
AddPaddingOddEven(w, h, target_width, target_height, page_num, first_odd_page) ==
    AppAddPaddingForExactSize(w, h, target_width, target_height, page_num)

\* core/image_filters.py: the left pages are those with
\* (page_num - first_odd_page) % 2 == 0; Python's % takes the divisor's sign
AddPaddingForExactSize(w, h, target_width, target_height, page_num, first_odd_page) ==
    IF ~(w < target_width) /\ ~(h < target_height)
      THEN Unpadded(w, h)
      ELSE PasteOnCanvas(w, h, target_width, target_height,
                         (page_num - first_odd_page) % 2 = 0)

\* int(inches * dpi), the inches given in hundredths
Pixels(hundredths, dpi) == (hundredths * dpi) \div 100

ImageSizes == {<<612, 792>>, <<792, 612>>, <<500, 800>>, <<700, 900>>}
PageSizes == {<<850, 1100>>, <<827, 1169>>}
PageNums == 1..MaxPageNum
FirstOddPages == 1..MaxFirstOdd

\* The padding step of export_pdf: page_num is 0-indexed there
CallAddPadding ==
    /\ \E img \in ImageSizes, page \in PageSizes, page_num \in PageNums,
          first_odd_page \in FirstOddPages :
         LET target_width_pixels == Pixels(page[1], Dpi)
             target_height_pixels == Pixels(page[2], Dpi)
             actual_page_num == (page_num - 1) + 1
         IN last' = Applied("add_padding_for_exact_size",
                            [image |-> img, target_width |-> target_width_pixels,
                             target_height |-> target_height_pixels,
                             page_num |-> actual_page_num,
                             first_odd_page |-> first_odd_page],
                            AddPaddingForExactSize(img[1], img[2], target_width_pixels,
                                                   target_height_pixels, actual_page_num,
                                                   first_odd_page))
    /\ UNCHANGED <<pdf_cache, render_cache, filter_cache, access_order, cache_stats, used,
                   removed, th, hist, cls>>

\* The padding of the Streamlit application
CallAppAddPadding ==
    /\ \E img \in ImageSizes, page \in PageSizes, page_num \in PageNums :
         LET target_w == Pixels(page[1], Dpi)
             target_h == Pixels(page[2], Dpi)
         IN last' = Applied("app.add_padding_for_exact_size",
                            [image |-> img, target_width |-> target_w,
                             target_height |-> target_h, page_num |-> page_num],
                            AppAddPaddingForExactSize(img[1], img[2], target_w, target_h,
                                                      page_num))
    /\ UNCHANGED <<pdf_cache, render_cache, filter_cache, access_order, cache_stats, used,
                   removed, th, hist, cls>>

\* ---- create_2up_page (src/app.py)
\* int(x * (num / den)) for x, num >= 0 and den > 0, the quotient taken exactly
Scaled(x, num, den) == (x * num) \div den

\* One half of the sheet: the scaled size of the image, Image.resize, and the
\* offset of the paste.  Image.resize raises ValueError ("height and width must
\* be > 0") when a side of the new size is 0.
Place(img, half_width, sheet_height_px, vertical_align, half_origin) ==
    LET by_width == half_width * img[2] <= sheet_height_px * img[1]
        num == IF by_width THEN half_width ELSE sheet_height_px
        den == IF by_width THEN img[1] ELSE img[2]
        new_width == Scaled(img[1], num, den)
        new_height == Scaled(img[2], num, den)
        y_offset == IF vertical_align = "center"
                      THEN (sheet_height_px - new_height) \div 2 ELSE 0
        x_offset == half_origin + ((half_width - new_width) \div 2)
    IN IF new_width < 1 \/ new_height < 1
         THEN [raised |-> "ValueError"]
         ELSE [raised |-> None, size |-> <<new_width, new_height>>,
               x_offset |-> x_offset, y_offset |-> y_offset]

\* create_2up_page: the blank sheet, then the left image, then the right one
Create2upPage(left_img, right_img, target_width, target_height, dpi, vertical_align) ==
    LET sheet_width_px == Pixels(target_width, dpi)
        sheet_height_px == Pixels(target_height, dpi)
        half_width == sheet_width_px \div 2
        left == IF left_img # Blank
                  THEN Place(left_img[1], half_width, sheet_height_px, vertical_align, 0)
                  ELSE [raised |-> None]
        right == IF right_img # Blank
                   THEN Place(right_img[1], half_width, sheet_height_px, vertical_align,
                              half_width)
                   ELSE [raised |-> None]
    IN IF left.raised # None THEN [raised |-> left.raised, result |-> None]
       ELSE IF right.raised # None THEN [raised |-> right.raised, result |-> None]
       ELSE [raised |-> None,
             result |-> [size |-> <<sheet_width_px, sheet_height_px>>,
                         left |-> left, right |-> right]]

\* Pages as they are rendered, a small square, and two strips
SheetImages == {Blank, <<<<612, 792>>>>, <<<<100, 100>>>>, <<<<1000, 2>>>>, <<<<2, 1000>>>>}
Landscapes == {<<1100, 850>>, <<1169, 827>>}

Call2up ==
    /\ \E left_img \in SheetImages, right_img \in SheetImages, sheet \in Landscapes,
          vertical_align \in {"top", "center"} :
         LET out == Create2upPage(left_img, right_img, sheet[1], sheet[2], Dpi,
                                  vertical_align)
         IN last' = [op |-> "create_2up_page",
                     args |-> [left_img |-> left_img, right_img |-> right_img,
                               target_width |-> sheet[1], target_height |-> sheet[2],
                               dpi |-> Dpi, vertical_align |-> vertical_align],
                     result |-> out.result, raised |-> out.raised]
    /\ UNCHANGED <<pdf_cache, render_cache, filter_cache, access_order, cache_stats, used,
                   removed, th, hist, cls>>

NextLayout ==
    \/ CallArrange
    \/ CallCutAndStackExport
    \/ CallAddPadding
    \/ CallAppAddPadding
    \/ Call2up

SpecLayout == Init /\ [][NextLayout]_vars

\* ------------------------------- adjustment pipeline (core/image_filters.py)
\* An image is one of its samples and the stages applied to it so far.  The
\* sample is followed through Levels and Brightness; a stage whose arithmetic
\* is not followed leaves the sample unknown (Blank).  `defined` is FALSE once
\* a sample was produced by a cast whose result the language leaves open.
Picture(v) == [sample |-> <<v>>, defined |-> TRUE, stages |-> <<>>]

\* The output of a stage applied to `image`
Stage(image, name, by, sample, defined) ==
    [sample |-> sample, defined |-> image.defined /\ defined,
     stages |-> Append(image.stages, [stage |-> name, by |-> by, on |-> Len(image.stages)])]

Untracked(image, name, by) == Stage(image, name, by, Blank, TRUE)

AdjustExposure(image, exposure) ==
    IF exposure = 0 THEN image ELSE Untracked(image, "exposure", <<exposure>>)

RECURSIVE Pow(_, _)
Pow(x, k) == IF k = 0 THEN 1 ELSE x * Pow(x, k - 1)

Abs(x) == IF x < 0 THEN -x ELSE x

\* One sample through adjust_levels; gamma in hundredths, a divisor of 100.
\*   (v - black_point) / (white_point - black_point) in float32: a zero
\*   divisor gives +inf, -inf, or NaN for 0 / 0; np.clip keeps NaN;
\*   astype(np.uint8) truncates, and of NaN it is `cast`.
LevelsSample(v, black_point, white_point, gamma, cast) ==
    LET num == v - black_point
        den == white_point - black_point
        k == IF gamma # 100 THEN 100 \div gamma ELSE 1
    IN IF den = 0 /\ num = 0 THEN [value |-> cast, defined |-> FALSE]
       ELSE IF den = 0 THEN [value |-> IF num > 0 THEN 255 ELSE 0, defined |-> TRUE]
       ELSE IF num = 0 \/ (num < 0) # (den < 0) THEN [value |-> 0, defined |-> TRUE]
       ELSE IF Abs(num) >= Abs(den) THEN [value |-> 255, defined |-> TRUE]
       ELSE [value |-> (255 * Pow(Abs(num), k)) \div Pow(Abs(den), k), defined |-> TRUE]

AdjustLevels(image, black_point, white_point, gamma, cast) ==
    IF image.sample = Blank
      THEN Untracked(image, "levels", <<black_point, white_point, gamma>>)
      ELSE LET out == LevelsSample(image.sample[1], black_point, white_point, gamma, cast)
           IN Stage(image, "levels", <<black_point, white_point, gamma>>,
                    <<out.value>>, out.defined)

AdjustHighlightsMidtonesShadows(image, highlights, midtones, shadows) ==
    Untracked(image, "highlights_midtones_shadows", <<highlights, midtones, shadows>>)

\* The sample reduced modulo 256 instead of clipped
BrightnessSampleWrapped(v, brightness) == ((v * (100 + brightness)) \div 100) % 256

\* ImageEnhance.Brightness(image).enhance(1 + brightness / 100): the blend of
\* black and the image, clipped to 0..255 and truncated
BrightnessSample(v, brightness) ==
    LET temp == v * (100 + brightness)
    IN IF temp <= 0 THEN 0 ELSE IF temp >= 25500 THEN 255 ELSE temp \div 100

EnhanceBrightness(image, brightness) ==
    IF image.sample = Blank
      THEN Untracked(image, "brightness", <<brightness>>)
      ELSE Stage(image, "brightness", <<brightness>>,
                 <<BrightnessSample(image.sample[1], brightness)>>, TRUE)

EnhanceContrast(image, contrast) == Untracked(image, "contrast", <<contrast>>)

\* Contrast first, then brightness
AdjustContrastBrightness(image, brightness, contrast) ==
    LET first == IF contrast # 0 THEN EnhanceContrast(image, contrast) ELSE image
    IN IF brightness # 0 THEN EnhanceBrightness(first, brightness) ELSE first

AdjustBrightnessContrast(image, brightness, contrast) ==
    LET first == IF brightness # 0 THEN EnhanceBrightness(image, brightness) ELSE image
    IN IF contrast # 0 THEN EnhanceContrast(first, contrast) ELSE first

AdjustSaturation(image, saturation) ==
    IF saturation = 0 THEN image ELSE Untracked(image, "saturation", <<saturation>>)

AdjustVibrance(image, vibrance) ==
    IF vibrance = 0 THEN image ELSE Untracked(image, "vibrance", <<vibrance>>)

AdjustSharpness(image, sharpness) ==
    IF sharpness = 0 THEN image ELSE Untracked(image, "sharpness", <<sharpness>>)

\* `black_point != 0 or white_point != 255`
NeedsLevelsByPoints(s) == s.black_point # 0 \/ s.white_point # 255

\* `black_point != 0 or white_point != 255 or gamma != 1.0`
NeedsLevels(s) == s.black_point # 0 \/ s.white_point # 255 \/ s.gamma # 100

ApplyAllAdjustments(image, s, cast) ==
    LET exposed == IF s.exposure # 0 THEN AdjustExposure(image, s.exposure) ELSE image
        levelled == IF NeedsLevels(s)
                      THEN AdjustLevels(exposed, s.black_point, s.white_point, s.gamma, cast)
                      ELSE exposed
        toned == IF s.highlights # 0 \/ s.midtones # 0 \/ s.shadows # 0
                   THEN AdjustHighlightsMidtonesShadows(levelled, s.highlights, s.midtones,
                                                        s.shadows)
                   ELSE levelled
        basic == IF s.brightness # 0 \/ s.contrast # 0
                   THEN AdjustBrightnessContrast(toned, s.brightness, s.contrast)
                   ELSE toned
        saturated == IF s.saturation # 0 THEN AdjustSaturation(basic, s.saturation) ELSE basic
        vibrant == IF s.vibrance # 0 THEN AdjustVibrance(saturated, s.vibrance) ELSE saturated
    IN IF s.sharpness # 0 THEN AdjustSharpness(vibrant, s.sharpness) ELSE vibrant

\* The defaults of apply_all_adjustments and of FilterSettings
NeutralSettings ==
    [brightness |-> 0, contrast |-> 0, highlights |-> 0, midtones |-> 0, shadows |-> 0,
     exposure |-> 0, saturation |-> 0, vibrance |-> 0, sharpness |-> 0, black_point |-> 0,
     white_point |-> 255, gamma |-> 100]

\* FilterSettings within its bounds: each field at its default or away from
\* it; gamma in hundredths
InRangeSettings ==
    [brightness : {0, 50, 100}, contrast : {0, 20}, highlights : {0, 30},
     midtones : {0, -20}, shadows : {0, 10}, exposure : {0, 1}, saturation : {0, -100},
     vibrance : {0, 40}, sharpness : {0, 100}, black_point : {0, 128},
     white_point : {255, 128}, gamma : {100, 50}]

InputSamples == {0, 100, 128, 200}

\* The values a cast of NaN to uint8 can have
Uint8 == 0..255

\* apply_all_adjustments(image, **filter_settings.dict()), once per behaviour
CallApplyAll ==
    /\ last.op = "init"
    /\ \E v \in InputSamples, s \in InRangeSettings :
         LET plain == ApplyAllAdjustments(Picture(v), s, 0)
         IN \E cast \in (IF plain.defined THEN {0} ELSE Uint8) :
              last' = Applied("apply_all_adjustments", [image |-> Picture(v), settings |-> s],
                              ApplyAllAdjustments(Picture(v), s, cast))
    /\ UNCHANGED <<pdf_cache, render_cache, filter_cache, access_order, cache_stats, used,
                   removed, th, hist, cls>>

NextPipeline == CallApplyAll

SpecPipeline == Init /\ [][NextPipeline]_vars

\* ------------------------------------------- auto enhance (src/app.py)
\* The estimate written with black_point and white_point as they were measured
EstimateUncapped(settings, p5, p95) ==
    IF p5 > 20 \/ p95 < 235
      THEN [settings EXCEPT !.black_point = p5, !.white_point = p95, !.contrast = 5]
      ELSE [settings EXCEPT !.contrast = 3, !.brightness = 2]

\* black_point = int(np.percentile(gray, 5)), white_point = int(np.percentile(gray, 95))
\* and the assignments of the estimate to the settings dict
EstimateInto(settings, p5, p95) ==
    LET black_point == p5
        white_point == p95
    IN IF black_point > 20 \/ white_point < 235
         THEN [settings EXCEPT !.black_point = Min(black_point, 50),
                               !.white_point = Max(white_point, 205),
                               !.contrast = 5]
         ELSE [settings EXCEPT !.contrast = 3, !.brightness = 2]

\* 5th and 95th percentiles of the grey levels of a page
Percentiles == {0, 10, 20, 21, 50, 51, 100, 204, 205, 206, 234, 235, 255}

\* The settings of the current page before the button is pressed
PriorSettings ==
    {NeutralSettings, [NeutralSettings EXCEPT !.saturation = 40],
     [NeutralSettings EXCEPT !.black_point = 200, !.white_point = 100, !.gamma = 50]}

\* "Auto Enhance All Pages": page_settings = get_default_filter_settings()
CallAutoEnhanceAll ==
    /\ last.op = "init"
    /\ \E p5 \in Percentiles, p95 \in Percentiles :
         /\ p5 <= p95
         /\ last' = Applied("auto_enhance_all_pages", [p5 |-> p5, p95 |-> p95],
                            EstimateInto(NeutralSettings, p5, p95))
    /\ UNCHANGED <<pdf_cache, render_cache, filter_cache, access_order, cache_stats, used,
                   removed, th, hist, cls>>

\* "Auto Enhance": the estimate is written into st.session_state.filter_settings
CallAutoEnhanceCurrent ==
    /\ last.op = "init"
    /\ \E p5 \in Percentiles, p95 \in Percentiles, filter_settings \in PriorSettings :
         /\ p5 <= p95
         /\ last' = Applied("auto_enhance",
                            [p5 |-> p5, p95 |-> p95, filter_settings |-> filter_settings],
                            EstimateInto(filter_settings, p5, p95))
    /\ UNCHANGED <<pdf_cache, render_cache, filter_cache, access_order, cache_stats, used,
                   removed, th, hist, cls>>

NextAuto ==
    \/ CallAutoEnhanceAll
    \/ CallAutoEnhanceCurrent

SpecAuto == Init /\ [][NextAuto]_vars

\* ------------------------------- the API handlers (api/main.py) and the
\* ------------------------------- PDFProcessor (core/pdf_processor.py)
\* A handler is `async def` and awaits nothing between its first cache call
\* and its last: it is one step.

\* PDFProcessor.__init__: the document, its page count, no page image yet
Processor(doc) == [doc |-> doc, page_count |-> PageCount, page_images |-> <<>>]

\* The raster of a page: page.get_pixmap and Image.open.  An image is the page
\* it shows and the settings applied to it.
PageImage(doc, page_num, dpi) ==
    [doc |-> doc, page |-> page_num, dpi |-> dpi, stages |-> <<>>]

\* get_page_as_image without the range test: self.doc[page_num] takes an
\* index from the end or wraps it
GetPageAsImageWrapped(proc, page_num, dpi) ==
    LET cache_key == <<page_num, dpi>>
        img == PageImage(proc.doc, page_num % proc.page_count, dpi)
    IN IF DictHas(proc.page_images, cache_key)
         THEN [proc |-> proc, image |-> DictGet(proc.page_images, cache_key), raised |-> None]
         ELSE [proc |-> [proc EXCEPT !.page_images = DictSet(@, cache_key, img)],
               image |-> img, raised |-> None]

\* PDFProcessor.get_page_as_image: the processor it leaves, the image it
\* returns and the exception it raised
GetPageAsImage(proc, page_num, dpi) ==
    LET cache_key == <<page_num, dpi>>
        img == PageImage(proc.doc, page_num, dpi)
    IN IF DictHas(proc.page_images, cache_key)
         THEN [proc |-> proc, image |-> DictGet(proc.page_images, cache_key), raised |-> None]
       ELSE IF page_num < 0 \/ page_num >= proc.page_count
         THEN [proc |-> proc, image |-> None, raised |-> "ValueError"]
       ELSE [proc |-> [proc EXCEPT !.page_images = DictSet(@, cache_key, img)],
             image |-> img, raised |-> None]

\* ImageFilters.apply_all_adjustments(base_image, **filter_dict): with every
\* value at 0 no stage runs and the base image itself is returned
Filtered(base_image, filter_dict) ==
    IF \A i \in 1..Len(filter_dict) : filter_dict[i].value.n = 0
      THEN base_image
      ELSE [base_image EXCEPT !.stages = Append(@, filter_dict)]

\* What a handler did besides answering
NoWork == [rasterized |-> 0, render_lookups |-> 0, filter_lookups |-> 0, applied |-> 0,
           touched |-> <<>>]

\* The state a handler leaves and its response
Served(op, req, status, image, work, pdf, render, lru, stats) ==
    /\ pdf_cache' = pdf
    /\ render_cache' = render
    /\ filter_cache' = lru.cache
    /\ access_order' = lru.order
    /\ cache_stats' = stats
    /\ used' = IF work.touched = <<>> THEN Forget(used, lru.cache)
               ELSE Touch(Forget(used, lru.cache), work.touched[1])
    /\ removed' = [render |-> removed.render + Gone(render_cache, render),
                   filter |-> removed.filter + Gone(filter_cache, lru.cache)]
    /\ last' = [op |-> op, req |-> req, status |-> status, image |-> image, work |-> work,
                raised |-> None]
    /\ UNCHANGED <<th, hist, cls>>

Refused(op, req, status) ==
    Served(op, req, status, None, NoWork, pdf_cache, render_cache,
           LruResult(filter_cache, access_order, None, None), cache_stats)

Request(pdf_id, page_num, dpi, filters) ==
    [pdf_id |-> pdf_id, page_num |-> page_num, dpi |-> dpi, filters |-> filters]

\* `self._cache_stats['misses'] += 1`
Miss(stats) == [stats EXCEPT !.misses = @ + 1]

\* A lookup that found its entry, counted as a miss
HitAsMiss(stats) == Miss(stats)

\* `self._cache_stats['hits'] += 1`
Hit(stats) == [stats EXCEPT !.hits = @ + 1]

\* upload_pdf
UploadPdf(pdf_id) ==
    Served("upload_pdf", Request(pdf_id, 0, 0, <<>>), "200", None, NoWork,
           IF DictHas(pdf_cache, pdf_id) THEN pdf_cache
           ELSE DictSet(pdf_cache, pdf_id, Processor(pdf_id)),
           render_cache, LruResult(filter_cache, access_order, None, None), cache_stats)

\* The base image of a page for a handler: cache.get_rendered_page, and on a
\* miss pdf_proc.get_page_as_image and cache.set_rendered_page
BaseImage(pdf_id, page_num, dpi, stats) ==
    LET key == RenderKey(pdf_id, page_num, dpi)
        got == GetPageAsImage(DictGet(pdf_cache, pdf_id), page_num, dpi)
    IN IF DictHas(render_cache, key)
         THEN [image |-> DictGet(render_cache, key), raised |-> None, pdf |-> pdf_cache,
               render |-> render_cache, stats |-> Hit(stats), rasterized |-> 0]
       ELSE IF got.raised # None
         THEN [image |-> None, raised |-> got.raised, pdf |-> pdf_cache,
               render |-> render_cache, stats |-> Miss(stats), rasterized |-> 0]
       ELSE [image |-> got.image, raised |-> None,
             pdf |-> DictSet(pdf_cache, pdf_id, got.proc),
             render |-> RenderSet(render_cache, key, got.image),
             stats |-> [Miss(stats) EXCEPT !.evictions = @ + RenderEvictions(render_cache)],
             rasterized |-> IF DictHas(got.proc.page_images, <<page_num, dpi>>)
                               /\ ~DictHas(DictGet(pdf_cache, pdf_id).page_images,
                                           <<page_num, dpi>>)
                            THEN 1 ELSE 0]

\* render_page
RenderPage(pdf_id, page_num, dpi) ==
    LET req == Request(pdf_id, page_num, dpi, <<>>)
        pdf_proc == DictGet(pdf_cache, pdf_id)
        base == BaseImage(pdf_id, page_num, dpi, cache_stats)
        lru == LruResult(filter_cache, access_order, None, None)
        work == [NoWork EXCEPT !.render_lookups = 1, !.rasterized = base.rasterized]
    IN IF ~DictHas(pdf_cache, pdf_id) THEN Refused("render_page", req, "404")
       ELSE IF page_num < 0 \/ page_num >= pdf_proc.page_count
         THEN Refused("render_page", req, "400")
       ELSE IF base.raised # None
         THEN Served("render_page", req, "500", None, work, base.pdf, base.render, lru,
                     base.stats)
       ELSE Served("render_page", req, "200", base.image, work, base.pdf, base.render, lru,
                   base.stats)

\* apply_filters
ApplyFilters(pdf_id, page_num, dpi, filters) ==
    LET req == Request(pdf_id, page_num, dpi, filters)
        pdf_proc == DictGet(pdf_cache, pdf_id)
        key == FilterKey(pdf_id, page_num, dpi, filters)
        got == LruGet(filter_cache, access_order, key)
        base == BaseImage(pdf_id, page_num, dpi, Miss(cache_stats))
        filtered_image == Filtered(base.image, filters)
        put == LruSet(got.cache, got.order, key, filtered_image)
        looked == [NoWork EXCEPT !.filter_lookups = 1]
        rendered == [looked EXCEPT !.render_lookups = 1, !.rasterized = base.rasterized]
    IN IF ~DictHas(pdf_cache, pdf_id) THEN Refused("apply_filters", req, "404")
       ELSE IF page_num < 0 \/ page_num >= pdf_proc.page_count
         THEN Refused("apply_filters", req, "400")
       ELSE IF got.raised # None
         THEN Served("apply_filters", req, "500", None, looked, pdf_cache, render_cache, got,
                     cache_stats)
       ELSE IF DictHas(filter_cache, key)
         THEN Served("apply_filters", req, "200", got.result,
                     [looked EXCEPT !.touched = <<key>>], pdf_cache, render_cache, got,
                     Hit(cache_stats))
       ELSE IF base.raised # None
         THEN Served("apply_filters", req, "500", None, rendered, base.pdf, base.render, got,
                     base.stats)
       ELSE IF put.raised # None
         THEN Served("apply_filters", req, "500", None, [rendered EXCEPT !.applied = 1],
                     base.pdf, base.render, put, base.stats)
       ELSE Served("apply_filters", req, "200", filtered_image,
                   [rendered EXCEPT !.applied = 1, !.touched = <<key>>],
                   base.pdf, base.render, put, base.stats)

\* websocket_preview, one "filter_update" message
WebsocketPreview(pdf_id, page_num, dpi, filters) ==
    LET req == Request(pdf_id, page_num, dpi, filters)
        base == BaseImage(pdf_id, page_num, dpi, cache_stats)
        lru == LruResult(filter_cache, access_order, None, None)
        work == [NoWork EXCEPT !.render_lookups = 1, !.rasterized = base.rasterized]
    IN IF ~DictHas(pdf_cache, pdf_id) THEN Refused("websocket_preview", req, "PDF not found")
       ELSE IF base.raised # None
         THEN Served("websocket_preview", req, "error", None, work, base.pdf, base.render,
                     lru, base.stats)
       ELSE Served("websocket_preview", req, "filter_complete",
                   Filtered(base.image, filters), [work EXCEPT !.applied = 1],
                   base.pdf, base.render, lru, base.stats)

\* pdf_proc.get_page_as_image called on the processor itself
CallGetPageAsImage(pdf_id, page_num, dpi) ==
    LET got == GetPageAsImage(DictGet(pdf_cache, pdf_id), page_num, dpi)
    IN /\ DictHas(pdf_cache, pdf_id)
       /\ pdf_cache' = DictSet(pdf_cache, pdf_id, got.proc)
       /\ last' = [op |-> "get_page_as_image", req |-> Request(pdf_id, page_num, dpi, <<>>),
                   status |-> got.raised, image |-> got.image, work |-> NoWork,
                   raised |-> got.raised]
       /\ UNCHANGED <<render_cache, filter_cache, access_order, cache_stats, used, removed,
                      th, hist, cls>>

\* The page numbers a client asks for: the pages, one before and one after
AskedPages == (-1)..PageCount

ApiLookupsLeft == Lookups < MaxApiLookups

ApiUpload == UploadPdf(IdA)

ApiRender ==
    /\ ApiLookupsLeft
    /\ \E pdf_id \in StoredIds, page_num \in AskedPages : RenderPage(pdf_id, page_num, Dpi)

ApiFilter ==
    /\ ApiLookupsLeft
    /\ \E pdf_id \in StoredIds, page_num \in AskedPages, filters \in {Bright, Flat} :
         ApplyFilters(pdf_id, page_num, Dpi, filters)

ApiPreview ==
    /\ ApiLookupsLeft
    /\ \E page_num \in AskedPages, filters \in {Bright, Flat} :
         WebsocketPreview(IdA, page_num, Dpi, filters)

ApiGetPage == \E page_num \in AskedPages : CallGetPageAsImage(IdA, page_num, Dpi)

\* clear_pdf_cache of the API
ApiClear == ClearPdfCache(IdA)

NextApi ==
    \/ ApiUpload
    \/ ApiRender
    \/ ApiFilter
    \/ ApiPreview
    \/ ApiGetPage
    \/ ApiClear

SpecApi == Init /\ [][NextApi]_vars

\* ------------------------------------ export (src/app.py, core/pdf_processor.py)
\* The page of the document made for one image: its size in points, a size
\* being a pair of fractions <<numerator, denominator>>.  With a target page
\* size every page has it; without one the page is fitted into 612 x 792.
PdfPage(img, target_page_size) ==
    LET wider == img[1] * 792 > 612 * img[2]
    IN IF target_page_size # Blank
         THEN [image |-> img, width |-> <<target_page_size[1][1], 1>>,
               height |-> <<target_page_size[1][2], 1>>]
       ELSE IF wider
         THEN [image |-> img, width |-> <<612, 1>>, height |-> <<612 * img[2], img[1]>>]
       ELSE [image |-> img, width |-> <<792 * img[1], img[2]>>, height |-> <<792, 1>>]

\* images_to_pdf without the test of the list: a document of no page
ImagesToPdfUnchecked(images, target_page_size) ==
    [raised |-> None,
     result |-> [i \in 1..Len(images) |-> PdfPage(images[i], target_page_size)]]

\* PDFProcessor.images_to_pdf: `if not images: raise ValueError`, then a page
\* per image
ImagesToPdf(images, target_page_size) ==
    IF Len(images) = 0
      THEN [raised |-> "ValueError", result |-> <<>>]
      ELSE [raised |-> None,
            result |-> [i \in 1..Len(images) |-> PdfPage(images[i], target_page_size)]]

\* relative_page_num at the padding step: the name is bound only in the body
\* of `if add_page_numbers:`; unbound, its read raises UnboundLocalError
RelativePageNum(page_num, start_page, add_page_numbers) ==
    IF ~add_page_numbers THEN Blank
    ELSE IF start_page > 1 THEN <<page_num - (start_page - 1)>>
    ELSE <<page_num>>

\* page_range of the export, the 0-indexed pages in their order
PageRange(page_count, start_page) ==
    IF start_page > 1
      THEN [k \in 1..(page_count - (start_page - 1)) |-> (start_page - 1) + (k - 1)]
      ELSE [k \in 1..page_count |-> k - 1]

\* One turn of the export loop for a page whose raster has size img: the page
\* number drawn when asked for, then the padding when asked for
ProcessPage(page_num, img, start_page, add_page_numbers, pad_to_exact_size, page_size_override, export_dpi) ==
    LET relative_page_num == RelativePageNum(page_num, start_page, add_page_numbers)
        target_width_pixels == Pixels(page_size_override[1][1], export_dpi)
        target_height_pixels == Pixels(page_size_override[1][2], export_dpi)
    IN IF pad_to_exact_size /\ page_size_override # Blank
         THEN IF relative_page_num = Blank
                THEN [raised |-> "UnboundLocalError", page_num |-> page_num,
                      numbered |-> add_page_numbers, out |-> Unpadded(img[1], img[2])]
                ELSE [raised |-> None, page_num |-> page_num, numbered |-> add_page_numbers,
                      out |-> AppAddPaddingForExactSize(img[1], img[2], target_width_pixels,
                                                        target_height_pixels,
                                                        relative_page_num[1])]
         ELSE [raised |-> None, page_num |-> page_num, numbered |-> add_page_numbers,
               out |-> Unpadded(img[1], img[2])]

\* processed_images[idx] for an Optional index
ImageAt(processed_images, idx) ==
    IF idx # Blank THEN <<processed_images[idx[1] + 1].out.size>> ELSE Blank

\* `arrangement[i] - 1 if arrangement[i] else None`
SlotIndex(slot) == IF slot # Blank /\ slot[1] # 0 THEN <<slot[1] - 1>> ELSE Blank

\* composite_sheets of the 2-up step: Cut & Stack makes a front and a back per
\* four slots, Sequential a sheet per two images
CompositeSheets(processed_images, layout_mode, landscape, export_dpi, vertical_align) ==
    LET n == Len(processed_images)
        arrangement == ArrangePagesCutAndStack(n)
    IN IF layout_mode = "Cut & Stack"
         THEN [s \in 1..(Len(arrangement) \div 2) |->
                 Create2upPage(ImageAt(processed_images, SlotIndex(arrangement[2 * s - 1])),
                               ImageAt(processed_images, SlotIndex(arrangement[2 * s])),
                               landscape[1], landscape[2], export_dpi, vertical_align)]
         ELSE [s \in 1..Ceil(n, 2) |->
                 Create2upPage(<<processed_images[2 * s - 1].out.size>>,
                               IF 2 * s <= n THEN <<processed_images[2 * s].out.size>>
                                             ELSE Blank,
                               landscape[1], landscape[2], export_dpi, vertical_align)]

\* The handler of "Generate PDF": the loop over page_range, the 2-up step and
\* images_to_pdf; an exception ends it where it is raised
GeneratePdf(page_count, start_page, add_page_numbers, pad_to_exact_size, two_up_enabled, layout_mode, page_size_override, img, export_dpi) ==
    LET page_range == PageRange(page_count, start_page)
        processed_images ==
            [k \in 1..Len(page_range) |->
               ProcessPage(page_range[k], img, start_page, add_page_numbers,
                           pad_to_exact_size, page_size_override, export_dpi)]
        two_up == two_up_enabled /\ page_size_override # Blank
        landscape == <<page_size_override[1][2], page_size_override[1][1]>>
        composite_sheets == CompositeSheets(processed_images, layout_mode, landscape,
                                            export_dpi, "top")
        final_images ==
            IF two_up THEN [s \in 1..Len(composite_sheets) |-> composite_sheets[s].result.size]
                      ELSE [k \in 1..Len(processed_images) |-> processed_images[k].out.size]
        final_page_size ==
            IF two_up THEN <<<<(landscape[1] * 72) \div 100, (landscape[2] * 72) \div 100>>>>
            ELSE IF pad_to_exact_size /\ page_size_override # Blank
              THEN <<<<(page_size_override[1][1] * 72) \div 100,
                       (page_size_override[1][2] * 72) \div 100>>>>
            ELSE Blank
        pdf == ImagesToPdf(final_images, final_page_size)
    IN IF \E k \in 1..Len(processed_images) : processed_images[k].raised # None
         THEN [raised |-> "UnboundLocalError", processed_images |-> <<>>, pdf |-> <<>>]
       ELSE IF two_up /\ \E s \in 1..Len(composite_sheets) : composite_sheets[s].raised # None
         THEN [raised |-> "ValueError", processed_images |-> processed_images, pdf |-> <<>>]
       ELSE [raised |-> pdf.raised, processed_images |-> processed_images,
             pdf |-> pdf.result]

MaxExportPages == 3
ExportDpi == 150

\* The settings the export section lets the user reach: padding and 2-up only
\* with a page size override, a start page above 1 only with Cut & Stack
ExportOptions ==
    {o \in [page_count : 1..MaxExportPages, start_page : 1..MaxExportPages,
            add_page_numbers : BOOLEAN, pad_to_exact_size : BOOLEAN,
            two_up_enabled : BOOLEAN, layout_mode : {"Sequential", "Cut & Stack"},
            page_size_override : {Blank} \cup {<<p>> : p \in PageSizes}] :
       /\ o.start_page <= o.page_count
       /\ o.page_size_override = Blank => ~o.pad_to_exact_size /\ ~o.two_up_enabled
       /\ ~o.two_up_enabled => o.layout_mode = "Sequential"
       /\ o.layout_mode = "Sequential" => o.start_page = 1}

CallGeneratePdf ==
    /\ last.op = "init"
    /\ \E o \in ExportOptions, img \in ImageSizes :
         LET out == GeneratePdf(o.page_count, o.start_page, o.add_page_numbers,
                                o.pad_to_exact_size, o.two_up_enabled, o.layout_mode,
                                o.page_size_override, img, ExportDpi)
         IN last' = [op |-> "generate_pdf", args |-> [options |-> o, image |-> img],
                     result |-> out, raised |-> out.raised]
    /\ UNCHANGED <<pdf_cache, render_cache, filter_cache, access_order, cache_stats, used,
                   removed, th, hist, cls>>

ImageLists == {<<>>, <<<<612, 792>>>>, <<<<792, 612>>, <<612, 792>>>>}

CallImagesToPdf ==
    /\ \E images \in ImageLists, target_page_size \in {Blank, <<<<612, 792>>>>} :
         LET out == ImagesToPdf(images, target_page_size)
         IN last' = [op |-> "images_to_pdf",
                     args |-> [images |-> images, target_page_size |-> target_page_size],
                     result |-> out.result, raised |-> out.raised]
    /\ UNCHANGED <<pdf_cache, render_cache, filter_cache, access_order, cache_stats, used,
                   removed, th, hist, cls>>

NextExport ==
    \/ CallGeneratePdf
    \/ CallImagesToPdf
    \/ CallArrange
    \/ Call2up

SpecExport == Init /\ [][NextExport]_vars

\* ---------------- adjust_highlights_midtones_shadows on a single-channel image
\* A sample v in 0..255 stands for the value v / 255, which is also its
\* luminance.  Values are kept as numerators over HmsScale = 100 * 255^2 after
\* the factor 255 of the conversion back: value * 255 = v + numerator / HmsScale.
\* The arithmetic is followed exactly; the rounding of float32 is not.
HmsScale == 6502500

\* img_array * (1 + highlight_factor * luminance^2) - img_array, times 255
HighlightGain(v, highlights) == IF highlights # 0 THEN highlights * v * v * v ELSE 0

\* shadow_factor * (1 - luminance), times 255
ShadowOffset(v, shadows) == IF shadows # 0 THEN shadows * (255 - v) * 65025 ELSE 0

\* np.clip(x, 0, 1) of the value v + numerator / HmsScale, as a numerator
ClipNumerator(v, numerator) ==
    IF numerator < -(v * HmsScale) THEN -(v * HmsScale)
    ELSE IF numerator > (255 - v) * HmsScale THEN (255 - v) * HmsScale
    ELSE numerator

\* (np.clip(img_array, 0, 1) * 255).astype(np.uint8)
HmsUint8(v, numerator) ==
    LET whole == v + (numerator \div HmsScale)
    IN IF whole < 0 THEN 0 ELSE IF whole >= 255 THEN 255 ELSE whole

\* The sample with a clip after the highlights too
HmsSampleClippedEach(v, highlights, shadows) ==
    HmsUint8(v, ClipNumerator(v, HighlightGain(v, highlights)) + ShadowOffset(v, shadows))

\* The sample after the highlights and the shadows adjustments (midtones 0)
\* and the one clip that follows them
HmsSample(v, highlights, shadows) ==
    HmsUint8(v, HighlightGain(v, highlights) + ShadowOffset(v, shadows))

HmsSamples == {0, 1, 64, 127, 128, 200, 230, 254, 255}
HmsAmounts == {-100, -50, -1, 0, 1, 50, 100}

\* adjust_highlights_midtones_shadows(image, highlights, 0, shadows) on an
\* image of mode L
CallAdjustHms ==
    /\ \E v \in HmsSamples, highlights \in HmsAmounts, shadows \in HmsAmounts :
         last' = Applied("adjust_highlights_midtones_shadows",
                         [sample |-> v, highlights |-> highlights, midtones |-> 0,
                          shadows |-> shadows],
                         HmsSample(v, highlights, shadows))
    /\ UNCHANGED <<pdf_cache, render_cache, filter_cache, access_order, cache_stats, used,
                   removed, th, hist, cls>>

NextHms == CallAdjustHms

SpecHms == Init /\ [][NextHms]_vars

\* ------------------------------- the singleton (core/cache_manager.py:21-44)
\* SpecSingleton: the process before any CacheManager() call; two threads
\* construct the manager and store a document through the reference they got.
\* One step is one statement of __new__ or __init__.  th[t].result is the
\* reference thread t holds, th[t].tmp the constructions it has finished.

MaxConstructions == 2

MapAttributes == {"_pdf_cache", "_render_cache", "_filter_cache", "_cache_stats"}

NotConstructed ==
    [instance |-> None, lock |-> None, initialized |-> Blank, attrs |-> {}, inits |-> 0,
     stored |-> {}]

InitProcess ==
    /\ pdf_cache = <<>>
    /\ render_cache = <<>>
    /\ filter_cache = <<>>
    /\ access_order = <<>>
    /\ cache_stats = [hits |-> 0, misses |-> 0, evictions |-> 0]
    /\ last = Call("init", <<>>, <<>>, None, None, 0)
    /\ used = <<>>
    /\ removed = [render |-> 0, filter |-> 0]
    /\ th = [t \in Threads |-> Idle]
    /\ hist = [calls |-> 0, lookups |-> 0, clears |-> 0, errors |-> 0]
    /\ cls = NotConstructed

\* Thread t moves to statement pc
Goto(t, pc) == th' = [th EXCEPT ![t].pc = pc]

\* CacheManager() of thread t has ended: with the instance, or with an exception
Constructed(t, result, raised) ==
    /\ th' = [th EXCEPT ![t].pc = "idle", ![t].result = result, ![t].tmp = @ + 1]
    /\ last' = Call("CacheManager", <<>>, <<>>, result, raised, 0)

\* Thread t calls CacheManager()
Construct(t) ==
    /\ th[t].pc = "idle"
    /\ th[t].tmp < MaxConstructions
    /\ th' = [th EXCEPT ![t].pc = "new_check", ![t].op = "CacheManager"]
    /\ UNCHANGED <<pdf_cache, render_cache, filter_cache, access_order, cache_stats, last,
                   used, removed, hist, cls>>

\* CacheManager.__new__, statement by statement: the test, `with cls._lock`,
\* the second test, the creation of the instance, `_initialized = False` and
\* the release of the lock
New(t) ==
    /\ th[t].op = "CacheManager"
    /\ \/ /\ th[t].pc = "new_check"
          /\ Goto(t, IF cls.instance = None THEN "new_lock" ELSE "init_check")
          /\ UNCHANGED cls
       \/ /\ th[t].pc = "new_lock"
          /\ cls.lock = None
          /\ cls' = [cls EXCEPT !.lock = t]
          /\ Goto(t, "new_check2")
       \/ /\ th[t].pc = "new_check2"
          /\ IF cls.instance = None
               THEN Goto(t, "new_create") /\ UNCHANGED cls
               ELSE Goto(t, "init_check") /\ cls' = [cls EXCEPT !.lock = None]
       \/ /\ th[t].pc = "new_create"
          /\ cls' = [cls EXCEPT !.instance = "obj"]
          /\ Goto(t, "new_flag")
       \/ /\ th[t].pc = "new_flag"
          /\ cls' = [cls EXCEPT !.initialized = <<FALSE>>, !.lock = None]
          /\ Goto(t, "init_check")
    /\ UNCHANGED <<pdf_cache, render_cache, filter_cache, access_order, cache_stats, last,
                   used, removed, hist>>

\* CacheManager.__init__ on the instance __new__ returned, statement by
\* statement.  Reading an attribute that is not set raises AttributeError.
InitSelf(t) ==
    /\ th[t].op = "CacheManager"
    /\ \/ /\ th[t].pc = "init_check"
          /\ IF cls.initialized = Blank THEN Constructed(t, None, "AttributeError")
             ELSE IF cls.initialized[1] THEN Constructed(t, cls.instance, None)
             ELSE Goto(t, "init_flag") /\ UNCHANGED last
          /\ UNCHANGED <<pdf_cache, render_cache, filter_cache, access_order, cache_stats,
                         cls>>
       \/ /\ th[t].pc = "init_flag"
          /\ cls' = [cls EXCEPT !.initialized = <<TRUE>>]
          /\ Goto(t, "init_pdf")
          /\ UNCHANGED <<pdf_cache, render_cache, filter_cache, access_order, cache_stats,
                         last>>
       \/ /\ th[t].pc = "init_pdf"
          /\ pdf_cache' = <<>>
          /\ cls' = [cls EXCEPT !.attrs = @ \cup {"_pdf_cache"}, !.inits = @ + 1]
          /\ Goto(t, "init_render")
          /\ UNCHANGED <<render_cache, filter_cache, access_order, cache_stats, last>>
       \/ /\ th[t].pc = "init_render"
          /\ render_cache' = <<>>
          /\ cls' = [cls EXCEPT !.attrs = @ \cup {"_render_cache"}]
          /\ Goto(t, "init_filter")
          /\ UNCHANGED <<pdf_cache, filter_cache, access_order, cache_stats, last>>
       \/ /\ th[t].pc = "init_filter"
          /\ filter_cache' = <<>>
          /\ access_order' = <<>>
          /\ cls' = [cls EXCEPT !.attrs = @ \cup {"_filter_cache"}]
          /\ Goto(t, "init_stats")
          /\ UNCHANGED <<pdf_cache, render_cache, cache_stats, last>>
       \/ /\ th[t].pc = "init_stats"
          /\ cache_stats' = [hits |-> 0, misses |-> 0, evictions |-> 0]
          /\ cls' = [cls EXCEPT !.attrs = @ \cup {"_cache_stats"}]
          /\ Constructed(t, cls.instance, None)
          /\ UNCHANGED <<pdf_cache, render_cache, filter_cache, access_order>>
    /\ UNCHANGED <<used, removed, hist>>

\* The document thread t stores
DocumentOf(t) == IF t = "t1" THEN IdA ELSE IdB

\* set_pdf through the reference thread t holds: `self._pdf_cache[pdf_id] = ...`
UseSetPdf(t) ==
    /\ th[t].pc = "idle"
    /\ th[t].result # None
    /\ DocumentOf(t) \notin cls.stored
    /\ IF "_pdf_cache" \in cls.attrs
         THEN /\ pdf_cache' = DictSet(pdf_cache, DocumentOf(t), "proc")
              /\ cls' = [cls EXCEPT !.stored = @ \cup {DocumentOf(t)}]
              /\ last' = Call("set_pdf", DocumentOf(t), <<>>, None, None, 0)
         ELSE /\ last' = Call("set_pdf", DocumentOf(t), <<>>, None, "AttributeError", 0)
              /\ UNCHANGED <<pdf_cache, cls>>
    /\ UNCHANGED <<render_cache, filter_cache, access_order, cache_stats, used, removed, th,
                   hist>>

NextSingleton ==
    \E t \in Threads :
        \/ Construct(t)
        \/ New(t)
        \/ InitSelf(t)
        \/ UseSetPdf(t)

SpecSingleton == InitProcess /\ [][NextSingleton]_vars

\* ------------------------------------------------------------------ claims

SetRenderedNew ==
    last'.op = "set_rendered_page" /\ ~DictHas(render_cache, last'.key)

SetFilteredNew ==
    last'.op = "set_filtered_image" /\ ~DictHas(filter_cache, last'.key)

\* C1: starting from an empty render cache, the insert of the 201st distinct key
\* (the cache holds 200) deletes the 50 oldest entries in that step and stores the
\* new entry after the 150 that are left; an insert into a cache of fewer than 200
\* deletes nothing.
C1_BulkEvictionAt201 ==
    [][SetRenderedNew =>
         IF Len(render_cache) = RenderLimit
         THEN /\ last'.gone = EvictBatch
              /\ DictKeys(render_cache') =
                   Append(SubSeq(DictKeys(render_cache), EvictBatch + 1, RenderLimit), last'.key)
         ELSE Len(render_cache) < RenderLimit =>
                /\ last'.gone = 0
                /\ DictKeys(render_cache') = Append(DictKeys(render_cache), last'.key)]_vars

\* C6: the render cache never holds more than 200 entries.
C6_RenderCacheBounded == Len(render_cache) <= RenderLimit

\* C2: an insert of a key that is not cached into a filter cache of 100 entries
\* deletes exactly one entry, the one used longest ago (a lookup hit, an insert
\* and an update each count as a use); when no entry was used again after its
\* insert, that is the entry inserted first.
C2_LruEviction ==
    [][(SetFilteredNew /\ Len(filter_cache) = maxsize) =>
         /\ last'.raised = None
         /\ last'.gone = 1
         /\ Len(filter_cache') = maxsize
         /\ ~DictHas(filter_cache', Head(used))
         /\ DictHas(filter_cache', last'.key)
         /\ (used = DictKeys(filter_cache) => ~DictHas(filter_cache', filter_cache[1].key))]_vars

FirstKey == FilterKey(IdA, 0, Dpi, Bright)
SecondKey == FilterKey(IdA, 1, Dpi, Bright)

\* C2's case: the cache was full, the first page had been looked up again, and the
\* insert of one more page deleted the second page instead of the first.
C2_Witness ==
    /\ last.op = "set_filtered_image"
    /\ last.gone = 1
    /\ cache_stats.hits = 1
    /\ Len(filter_cache) = maxsize
    /\ DictHas(filter_cache, FirstKey)
    /\ ~DictHas(filter_cache, SecondKey)

\* C3: with two entries or more cached, a lookup hit on k followed at once by the
\* insert of a key that is not cached leaves k cached, and the next lookup of k
\* returns the image the hit returned.
C3_HitThenInsertKeeps ==
    [][(/\ last.op = "get_filtered_image"
        /\ last.result # None
        /\ Len(filter_cache) >= 2
        /\ SetFilteredNew) =>
         /\ DictHas(filter_cache', last.key)
         /\ LruGet(filter_cache', access_order', last.key).result = last.result]_vars

\* C3's case: the full cache's oldest entry was hit, then a new page was inserted
\* and another entry was deleted for it.
C3_Witness ==
    /\ last.op = "set_filtered_image"
    /\ last.gone = 1
    /\ cache_stats.hits = 1
    /\ removed.filter = 1
    /\ Len(used) = maxsize
    /\ used[maxsize] = last.key
    /\ used[maxsize - 1] = FirstKey
    /\ DictGet(filter_cache, FirstKey) = "img1"

\* C9: the evictions counter equals the number of entries capacity eviction has
\* deleted from the render cache and from the filter cache since the last
\* clear_all.
C9_EvictionsCounted == cache_stats.evictions = removed.render + removed.filter

\* The filter entries stored under pdf_id: the keys set_filtered_image gives it
StoredUnder(pdf_id) ==
    {FilterKey(pdf_id, p, Dpi, SettingsValues[i]) : p \in 0..1, i \in 1..Len(SettingsValues)}

NothingCachedFor(pdf_id) ==
    /\ ~DictHas(pdf_cache, pdf_id)
    /\ \A i \in 1..Len(render_cache) : render_cache[i].key[1] # pdf_id
    /\ \A k \in StoredUnder(pdf_id) : ~DictHas(filter_cache, k)

\* C7: when clear_pdf_cache(id) has returned, the document cache has no handle
\* for id, the render cache has no entry of document id and the filter cache has
\* no entry stored under id.
C7_ClearPdfRemovesAll == last.op = "clear_pdf_cache" => NothingCachedFor(last.pdf_id)

\* C7's case: clear_pdf_cache(a) deleted a's handle, its rendered page and both
\* its filtered pages, and document b's handle and rendered page are still cached.
C7_Witness ==
    /\ last.op = "clear_pdf_cache"
    /\ last.pdf_id = IdA
    /\ last.gone = 4
    /\ DictHas(pdf_cache, IdB)
    /\ DictHas(render_cache, RenderKey(IdB, 0, Dpi))

\* C8: clear_pdf_cache(id), for an id with no handle and no rendered or filtered
\* entry, returns without error and leaves the three caches, the access order and
\* the counters as they were.
C8_ClearUnknownIsNoOp ==
    [][(last'.op = "clear_pdf_cache" /\ NothingCachedFor(last'.pdf_id)) =>
         /\ last'.raised = None
         /\ UNCHANGED <<pdf_cache, render_cache, filter_cache, access_order, cache_stats>>]_vars

\* Two dicts with the same field -> value pairs
SameSettings(s1, s2) == {s1[i] : i \in 1..Len(s1)} = {s2[i] : i \in 1..Len(s2)}

\* C10: settings values with the same field -> value pairs have the same
\* fingerprint whatever order their fields were inserted in, so that once
\* set_filtered_image has stored an image, get_filtered_image with the same
\* pdf_id, page and dpi and an equal settings value returns that image.
C10_EqualSettingsSameEntry ==
    [][last'.op = "set_filtered_image" =>
         \A k \in SmallFilterSets : \A i \in 1..Len(SettingsValues) :
           (SameSettings(k[3], SettingsValues[i]) /\ SetFilteredImage(k[1], k[2], Dpi, k[3], k[4]))
           => /\ HashFilters(SettingsValues[i]) = HashFilters(k[3])
              /\ LruGet(filter_cache', access_order',
                        FilterKey(k[1], k[2], Dpi, SettingsValues[i])).result = k[4]]_vars

\* C10's case: a lookup with Bright returned the image that was stored with
\* BrightSwapped, the same settings inserted in the other order.
C10_Witness ==
    /\ last.op = "get_filtered_image"
    /\ last.key = FilterKey(IdA, 0, Dpi, Bright)
    /\ last.result = "img2"

AllIdle == \A t \in Threads : th[t].pc = "idle"

\* C4: under every interleaving of the calls of concurrent threads each call
\* takes effect as one atomic step: no call fails with an error, and once all
\* calls have returned the filter cache is one a sequential order leaves, its
\* access-order list holding each cached key once and nothing else.
C4_CallsAreAtomic ==
    /\ last.raised = None
    /\ AllIdle =>
          /\ Len(access_order) = Len(filter_cache)
          /\ {access_order[i] : i \in 1..Len(access_order)} = FilterKeys

\* C5: once concurrent render/filter lookups have all returned, with no
\* clear_all and no failed call among the threads' calls, hits + misses is the
\* number of lookups: no increment is lost.
C5_NoLostCount ==
    AllIdle /\ hist.clears = 0 /\ hist.errors = 0 => Lookups = hist.lookups

\* The least multiple of 4 that is not below n
RoundUp4(n) == CHOOSE m \in n..(n + 3) : m % 4 = 0

ArrangedFor(n) == last.op = "arrange_pages_cut_and_stack" /\ last.args = n

\* C11: for n >= 1 pages the arrangement has 4 * ceil(n / 4) slots, of which
\* 4 * ceil(n / 4) - n are blank, and the others hold the pages 1..n, each once.
C11_SlotsHoldEachPageOnce ==
    \A n \in 1..(MaxPages + 1) : ArrangedFor(n) =>
        LET out == last.result
        IN /\ Len(out) = RoundUp4(n)
           /\ Cardinality({k \in 1..Len(out) : out[k] = Blank}) = RoundUp4(n) - n
           /\ \A k \in 1..Len(out) : out[k] # Blank => out[k][1] \in 1..n
           /\ \A p \in 1..n : Cardinality({k \in 1..Len(out) : out[k] = <<p>>}) = 1

\* C11's case: 5 pages give 8 slots, 3 of them blank.
C11_Witness ==
    /\ ArrangedFor(5)
    /\ Len(last.result) = 8
    /\ Cardinality({k \in 1..8 : last.result[k] = Blank}) = 3

\* A page number, or blank when it is beyond the last page
UpTo(page, n) == IF page > n THEN Blank ELSE <<page>>

\* C12: slots 4i..4i+3 of the arrangement are 2i+1, 2*sheets+2i+1, 2*sheets+2i+2
\* and 2i+2, each blank exactly when it exceeds n; for n = 8 the arrangement is
\* [1,5,6,2,3,7,8,4].
C12_SheetFormula ==
    \A n \in 0..(MaxPages + 1) : ArrangedFor(n) =>
        LET out == last.result
            sheets == RoundUp4(n) \div 4
        IN /\ Len(out) = 4 * sheets
           /\ \A i \in 0..(sheets - 1) :
                /\ out[4 * i + 1] = UpTo(2 * i + 1, n)
                /\ out[4 * i + 2] = UpTo(2 * sheets + 2 * i + 1, n)
                /\ out[4 * i + 3] = UpTo(2 * sheets + 2 * i + 2, n)
                /\ out[4 * i + 4] = UpTo(2 * i + 2, n)
           /\ n = 8 => out = <<<<1>>, <<5>>, <<6>>, <<2>>, <<3>>, <<7>>, <<8>>, <<4>>>>

\* C12's case: 6 pages, the second sheet has blanks at front right and back left.
C12_Witness ==
    /\ ArrangedFor(6)
    /\ last.result[5] = <<3>>
    /\ last.result[6] = Blank
    /\ last.result[7] = Blank
    /\ last.result[8] = <<4>>

\* The left halves of the printed sides, front then back (the back's right half
\* is behind the front's left half), and the right halves likewise
LeftPile(sides) ==
    [k \in 1..Len(sides) |-> IF k % 2 = 1 THEN sides[k].left ELSE sides[k].right]

RightPile(sides) ==
    [k \in 1..Len(sides) |-> IF k % 2 = 1 THEN sides[k].right ELSE sides[k].left]

\* C13: the left pile reads 1..2*sheets and the right pile 2*sheets+1..4*sheets,
\* so the left pile on the right pile is pages 1..n in increasing order, the
\* blanks of each pile after its last page.
C13_SequentialBooklet ==
    \A n \in 1..(MaxPages + 1) :
      (last.op = "cut_and_stack_export" /\ last.args = n) =>
        LET sides == last.result
            sheets == RoundUp4(n) \div 4
        IN /\ Len(sides) = 2 * sheets
           /\ \A k \in 1..(2 * sheets) :
                /\ LeftPile(sides)[k] = UpTo(k, n)
                /\ RightPile(sides)[k] = UpTo(2 * sheets + k, n)
           /\ LeftPile(sides) \o RightPile(sides) = [k \in 1..(4 * sheets) |-> UpTo(k, n)]

\* C13's case: 5 pages on two sheets; page 5 is the right half of the first
\* front side and every later slot of the right pile is blank.
C13_Witness ==
    /\ last.op = "cut_and_stack_export"
    /\ last.args = 5
    /\ last.result[1] = [left |-> <<1>>, right |-> <<5>>]
    /\ last.result[2] = [left |-> Blank, right |-> <<2>>]
    /\ last.result[4] = [left |-> Blank, right |-> <<4>>]

Padded == last.op \in {"add_padding_for_exact_size", "app.add_padding_for_exact_size"}

SameParity(a, b) == (a % 2 = 1) <=> (b % 2 = 1)

\* C14: when the image is narrower than the target, the image is pasted at
\* x = 0 if page_num and first_odd_page differ by an even number (also when
\* page_num < first_odd_page) and at x = final_width - image.width otherwise;
\* with first_odd_page = 1 pages 1, 3, 5 are at the left and 2, 4, 6 at the
\* right; y is 0 in every case.
C14_PaddingAlternates ==
    last.op = "add_padding_for_exact_size" =>
        LET a == last.args
            w == a.image[1]
            final_width == IF w > a.target_width THEN w ELSE a.target_width
        IN /\ last.result.y_offset = 0
           /\ w < a.target_width =>
                /\ SameParity(a.page_num, a.first_odd_page) => last.result.x_offset = 0
                /\ ~SameParity(a.page_num, a.first_odd_page) =>
                     last.result.x_offset = final_width - w
                /\ (a.first_odd_page = 1 /\ a.page_num \in {1, 3, 5}) =>
                     last.result.x_offset = 0
                /\ (a.first_odd_page = 1 /\ a.page_num \in {2, 4, 6}) =>
                     last.result.x_offset = a.target_width - w

\* C14's case: page 1 with first odd page 2 is a right page.
C14_Witness ==
    /\ last.op = "add_padding_for_exact_size"
    /\ last.args.page_num = 1
    /\ last.args.first_odd_page = 2
    /\ last.args.image = <<500, 800>>
    /\ last.args.target_width = 612
    /\ last.result.x_offset = 112

\* C15: the padding returns its input itself exactly when the image is at
\* least as wide and as high as the target; otherwise the result has the size
\* (max of the widths, max of the heights) and the pasted input lies inside it.
C15_PadsOnlyWhenSmaller ==
    Padded =>
        LET a == last.args
            w == a.image[1]
            h == a.image[2]
            out == last.result
        IN /\ out.image = "input" <=> (w >= a.target_width /\ h >= a.target_height)
           /\ out.image = "input" => out.size = a.image
           /\ out.image # "input" =>
                /\ out.size[1] >= w /\ out.size[1] >= a.target_width
                /\ out.size[1] \in {w, a.target_width}
                /\ out.size[2] >= h /\ out.size[2] >= a.target_height
                /\ out.size[2] \in {h, a.target_height}
                /\ 0 <= out.x_offset /\ out.x_offset + w <= out.size[1]
                /\ 0 <= out.y_offset /\ out.y_offset + h <= out.size[2]

\* C15's case: a landscape image on a portrait target is wider and lower than
\* the target; the canvas keeps the image's width and takes the target's height.
C15_Witness ==
    /\ last.op = "app.add_padding_for_exact_size"
    /\ last.args.image = <<792, 612>>
    /\ last.args.target_width = 595
    /\ last.args.target_height = 841
    /\ last.result.image = "padded"
    /\ last.result.size = <<792, 841>>

\* C16: create_2up_page always returns a sheet of int(target_width * dpi) by
\* int(target_height * dpi) pixels, whatever the sizes of the two images,
\* whichever of them is blank, and whatever the vertical alignment.
C16_SheetSizeAlways ==
    last.op = "create_2up_page" =>
        /\ last.raised = None
        /\ last.result.size = <<(last.args.target_width * last.args.dpi) \div 100,
                                (last.args.target_height * last.args.dpi) \div 100>>

Adjusted == last.op = "apply_all_adjustments"

Ran(name) == \E i \in 1..Len(last.result.stages) : last.result.stages[i].stage = name

\* C17: apply_all_adjustments runs a stage exactly when one of the stage's
\* parameters differs from its neutral default; with the default settings no
\* stage runs and the result is the input image.
C17_StageRunsIffNonNeutral ==
    Adjusted =>
        LET s == last.args.settings
        IN /\ Ran("exposure") <=> s.exposure # 0
           /\ Ran("levels") <=> (s.black_point # 0 \/ s.white_point # 255 \/ s.gamma # 100)
           /\ Ran("highlights_midtones_shadows") <=>
                (s.highlights # 0 \/ s.midtones # 0 \/ s.shadows # 0)
           /\ (Ran("brightness") \/ Ran("contrast")) <=> (s.brightness # 0 \/ s.contrast # 0)
           /\ Ran("saturation") <=> s.saturation # 0
           /\ Ran("vibrance") <=> s.vibrance # 0
           /\ Ran("sharpness") <=> s.sharpness # 0
           /\ s = NeutralSettings => last.result = last.args.image

\* C17's case: gamma alone away from 1.0 runs Levels and nothing else.
C17_Witness ==
    /\ Adjusted
    /\ last.args.settings = [NeutralSettings EXCEPT !.gamma = 50]
    /\ Len(last.result.stages) = 1
    /\ Ran("levels")

StageOrder ==
    <<"exposure", "levels", "highlights_midtones_shadows", "brightness", "contrast",
      "saturation", "vibrance", "sharpness">>

Rank(name) == CHOOSE r \in 1..Len(StageOrder) : StageOrder[r] = name

\* C18: the stages that run, run in the order Exposure, Levels,
\* Highlights/Midtones/Shadows, Brightness, Contrast, Saturation, Vibrance,
\* Sharpness, whatever the settings, each on the output of the one before it.
C18_FixedStageOrder ==
    Adjusted =>
        LET stages == last.result.stages
        IN /\ \A i, j \in 1..Len(stages) :
                i < j => Rank(stages[i].stage) < Rank(stages[j].stage)
           /\ \A i \in 1..Len(stages) : stages[i].on = i - 1

\* C18's case: every parameter away from its default, all eight stages run.
C18_Witness ==
    /\ Adjusted
    /\ Len(last.result.stages) = 8
    /\ last.result.stages[4].stage = "brightness"
    /\ last.result.stages[5].stage = "contrast"
    /\ last.result.stages[8].stage = "sharpness"

\* C19: for every settings value within the bounds of its fields, also with
\* black_point = white_point, the pipeline completes without error and every
\* output sample is a defined value in 0..255.
C19_PipelineTotal ==
    Adjusted =>
        /\ last.raised = None
        /\ last.result.defined
        /\ last.result.sample # Blank => last.result.sample[1] \in 0..255

BrightenedOnly ==
    /\ Adjusted
    /\ last.args.settings.brightness > 0
    /\ [last.args.settings EXCEPT !.brightness = 0] = NeutralSettings

\* C20: with brightness > 0 and every other setting neutral, an output sample
\* below 255 is at least the input sample: the output is the input scaled by
\* 1 + brightness / 100 and clipped at 255, never wrapped around.
C20_BrightnessMonotonic ==
    BrightenedOnly =>
        LET v == last.args.image.sample[1]
            scaled == v * (100 + last.args.settings.brightness)
            out == last.result.sample
        IN /\ out # Blank
           /\ out[1] \in 0..255
           /\ out[1] < 255 => out[1] >= v
           /\ out[1] < 255 => (out[1] * 100 <= scaled /\ scaled < (out[1] + 1) * 100)
           /\ scaled >= 25500 => out[1] = 255

\* C20's case: 200 brightened by 50 would be 300 and is clipped to 255.
C20_Witness ==
    /\ BrightenedOnly
    /\ last.args.image.sample = <<200>>
    /\ last.args.settings.brightness = 50
    /\ last.result.sample = <<255>>

\* The bounds of FilterSettings, gamma in hundredths
InFilterRange(s) ==
    /\ \A f \in {"brightness", "contrast", "highlights", "midtones", "shadows",
                 "saturation", "vibrance", "sharpness"} : s[f] \in -100..100
    /\ s.exposure \in -3..3
    /\ s.black_point \in 0..255
    /\ s.white_point \in 0..255
    /\ s.gamma \in 10..300

C22_AutoEnhanceRule ==
    last.op \in {"auto_enhance_all_pages", "auto_enhance"} =>
        LET p5 == last.args.p5
            p95 == last.args.p95
        IN IF p5 > 20 \/ p95 < 235
             THEN last.result =
                    [NeutralSettings EXCEPT !.black_point = IF p5 < 50 THEN p5 ELSE 50,
                                            !.white_point = IF p95 > 205 THEN p95 ELSE 205,
                                            !.contrast = 5]
             ELSE last.result = [NeutralSettings EXCEPT !.contrast = 3, !.brightness = 2]

Pages == 0..(PageCount - 1)

AskedOutOfRange ==
    /\ last.op \in {"get_page_as_image", "render_page", "apply_filters", "websocket_preview"}
    /\ last.status \notin {"404", "PDF not found"}
    /\ last.req.page_num \notin Pages

\* C23: a request for a page outside [0, page_count) ends in an error for the
\* caller; no image of another page is returned, and no page image, render
\* cache entry or filter cache entry is ever made for such an index.
C23_OutOfRangeSurfaced ==
    /\ AskedOutOfRange =>
         /\ last.status \in {"ValueError", "400", "error"}
         /\ last.work.rasterized = 0
         /\ last.work.applied = 0
    /\ (last.op \in {"get_page_as_image", "render_page", "apply_filters", "websocket_preview"}
        /\ last.status \in {None, "200", "filter_complete"}) =>
         last.image.page = last.req.page_num
    /\ \A i \in 1..Len(render_cache) :
         /\ render_cache[i].key[2] \in Pages
         /\ render_cache[i].image.page = render_cache[i].key[2]
    /\ \A i \in 1..Len(filter_cache) :
         /\ filter_cache[i].image.page \in Pages
         /\ filter_cache[i].image.page = PageOf(filter_cache[i].key)
    /\ \A i \in 1..Len(pdf_cache) : \A j \in 1..Len(pdf_cache[i].image.page_images) :
         /\ pdf_cache[i].image.page_images[j].key[1] \in Pages
         /\ pdf_cache[i].image.page_images[j].image.page
              = pdf_cache[i].image.page_images[j].key[1]

\* C23's case: the preview of page -1 of an uploaded document, which reaches
\* get_page_as_image after a miss in the render cache, ends in an error.
C23_Witness ==
    /\ last.op = "websocket_preview"
    /\ last.req.page_num = -1
    /\ last.status = "error"
    /\ last.work.render_lookups = 1
    /\ DictHas(pdf_cache, IdA)
    /\ cache_stats.misses >= 1

NoImageGiven ==
    \/ last.op = "images_to_pdf" /\ last.args.images = <<>>
    \/ last.op = "create_2up_page" /\ last.args.left_img = Blank /\ last.args.right_img = Blank
    \/ last.op = "arrange_pages_cut_and_stack" /\ last.args = 0

\* C24 as stated: imposition with no image fails with an invalid-argument
\* error and produces nothing, be it a document composed from an empty list, a
\* 2-up sheet with both slots blank or a page arrangement for 0 pages.
C24_ZeroImagesRefused == NoImageGiven => last.raised = "ValueError"

\* C24 amended: a document composed from an empty image list raises ValueError
\* and produces no page; a page arrangement for 0 pages is the empty list and
\* raises nothing; a 2-up sheet with both slots blank raises nothing and is
\* the white sheet of the target size.
C24_ZeroImagesAmended ==
    /\ (last.op = "images_to_pdf" /\ last.args.images = <<>>) =>
         last.raised = "ValueError" /\ last.result = <<>>
    /\ (last.op = "images_to_pdf" /\ last.args.images # <<>>) =>
         last.raised = None /\ Len(last.result) = Len(last.args.images)
    /\ (last.op = "arrange_pages_cut_and_stack" /\ last.args = 0) =>
         last.raised = None /\ last.result = <<>>
    /\ (last.op = "create_2up_page" /\ last.args.left_img = Blank
        /\ last.args.right_img = Blank) =>
         /\ last.raised = None
         /\ last.result.size = <<Pixels(last.args.target_width, last.args.dpi),
                                 Pixels(last.args.target_height, last.args.dpi)>>
    /\ (last.op = "generate_pdf" /\ last.raised = None) => Len(last.result.pdf) >= 1

\* C24's case: images_to_pdf called with the empty list has raised.
C24_Witness ==
    /\ last.op = "images_to_pdf"
    /\ last.args.images = <<>>
    /\ last.raised = "ValueError"

PaddedExport ==
    /\ last.op = "generate_pdf"
    /\ last.args.options.pad_to_exact_size
    /\ last.args.options.page_size_override # Blank

\* C25: in an export with padding to the exact page size, whatever the other
\* options, the padding step completes, and the first exported page, the
\* third, ... are aligned left (padded on the right) and the second, the
\* fourth, ... are aligned right (padded on the left).
C25_ExportPaddingAlternates ==
    PaddedExport =>
      /\ last.raised # "UnboundLocalError"
      /\ \A k \in 1..Len(last.result.processed_images) :
           LET out == last.result.processed_images[k].out
           IN out.size[1] > last.args.image[1] =>
                out.x_offset = IF k % 2 = 1 THEN 0 ELSE out.size[1] - last.args.image[1]

HmsRan == last.op = "adjust_highlights_midtones_shadows"

\* C26 as stated: the values are clipped to [0,1] after each applied
\* sub-stage, so the shadows offset is added to the clipped highlights result.
C26_ClippedAfterEachSubStage ==
    HmsRan => last.result = HmsSampleClippedEach(last.args.sample, last.args.highlights,
                                                 last.args.shadows)

\* C26 amended: the values are clipped once, after all applied sub-stages: the
\* result is the clip of the sum of the sample, the highlights gain and the
\* shadows offset, so an offset smaller than the excess of the highlights
\* result over 1 leaves the sample at 255, and the result stays in 0..255.
C26_ClippedOnceAtTheEnd ==
    HmsRan =>
      LET v == last.args.sample
          gain == HighlightGain(v, last.args.highlights)
          offset == ShadowOffset(v, last.args.shadows)
          excess == gain - (255 - v) * HmsScale
      IN /\ last.result \in 0..255
         /\ (excess >= 0 /\ excess + offset >= 0) => last.result = 255
         /\ (gain + offset < HmsScale - v * HmsScale) => last.result = 0
         /\ (excess < 0 /\ gain >= -(v * HmsScale)) =>
              last.result = HmsSampleClippedEach(v, last.args.highlights, last.args.shadows)

\* C26's case: highlights +100 and shadows -100 on the bright sample 230; the
\* highlights result is above 1 and the result is 255, not 230.
C26_Witness ==
    /\ HmsRan
    /\ last.args = [sample |-> 230, highlights |-> 100, midtones |-> 0, shadows |-> -100]
    /\ last.result = 255
    /\ HmsSampleClippedEach(230, 100, -100) = 230

\* C27: after any sequence of get, set, clear_pdf and clear calls made one
\* after the other, the access-order list holds exactly the keys of the cache
\* dict, each once, and the cache holds at most maxsize entries.
C27_LruStructure ==
    /\ Len(access_order) = Len(filter_cache)
    /\ \A i \in 1..Len(filter_cache) :
         Cardinality({j \in 1..Len(access_order) : access_order[j] = filter_cache[i].key}) = 1
    /\ Len(filter_cache) <= maxsize

\* C27's case: the cache is full, entries have been evicted and a used key
\* has moved, so the list is no longer in the dict's order.
C27_Witness ==
    /\ Len(filter_cache) = maxsize
    /\ removed.filter >= 1
    /\ Len(access_order) = maxsize
    /\ \E i \in 1..maxsize : access_order[i] # filter_cache[i].key

\* What is cached for pdf_id is cached after the step as well, with its value
KeptFor(pdf_id) ==
    /\ DictHas(pdf_cache, pdf_id) =>
         DictHas(pdf_cache', pdf_id) /\ DictGet(pdf_cache', pdf_id) = DictGet(pdf_cache, pdf_id)
    /\ \A i \in 1..Len(render_cache) :
         render_cache[i].key[1] = pdf_id =>
           /\ DictHas(render_cache', render_cache[i].key)
           /\ DictGet(render_cache', render_cache[i].key) = render_cache[i].image
    /\ \A k \in StoredUnder(pdf_id) :
         DictHas(filter_cache, k) =>
           DictHas(filter_cache', k) /\ DictGet(filter_cache', k) = DictGet(filter_cache, k)

\* C28: clear_pdf_cache(id) leaves every handle, rendered page and filtered
\* image stored under another id cached with its value, keeps the order of use
\* of the filter entries that remain, and leaves the counters as they were.
C28_ClearPdfTouchesOnlyId ==
    [][last'.op = "clear_pdf_cache" =>
         /\ \A other \in AnyIds \ {last'.pdf_id} : KeptFor(other)
         /\ access_order' = SelectSeq(access_order, LAMBDA k : DictHas(filter_cache', k))
         /\ cache_stats' = cache_stats]_vars

\* C29: the manager is initialised once: every construction returns the
\* instance, the maps and counters are created once and never replaced (a
\* document stored through a reference stays stored), and no construction or
\* use of the instance meets an attribute that does not exist yet.
C29_InitialisedOnce ==
    /\ cls.inits <= 1
    /\ \A pdf_id \in cls.stored : DictHas(pdf_cache, pdf_id)
    /\ last.op \in {"CacheManager", "set_pdf"} => last.raised = None
    /\ last.op = "CacheManager" => last.result = cls.instance

FilterRequestServed(call) == call.op = "apply_filters" /\ call.status = "200"

\* C30: a filter request that follows a successful identical one is served
\* from the filter cache: nothing is rasterized, the render cache is not
\* looked up, no adjustment is applied, hits grows by 1 and misses by 0, and
\* the image is the one returned before.  A successful filter request on cold
\* caches counts two misses (filter and render) and leaves the rendered page
\* and the filtered image cached.
C30_RepeatServedFromCache ==
    [][/\ (last.op = "apply_filters" /\ FilterRequestServed(last)
           /\ last'.op = "apply_filters" /\ last'.req = last.req) =>
            /\ last'.status = "200"
            /\ last'.work.rasterized = 0
            /\ last'.work.render_lookups = 0
            /\ last'.work.applied = 0
            /\ cache_stats'.hits = cache_stats.hits + 1
            /\ cache_stats'.misses = cache_stats.misses
            /\ last'.image = last.image
       /\ (last'.op = "apply_filters" /\ FilterRequestServed(last')
           /\ render_cache = <<>> /\ filter_cache = <<>>) =>
            /\ cache_stats'.misses = cache_stats.misses + 2
            /\ cache_stats'.hits = cache_stats.hits
            /\ DictHas(render_cache',
                       RenderKey(last'.req.pdf_id, last'.req.page_num, last'.req.dpi))
            /\ DictHas(filter_cache',
                       FilterKey(last'.req.pdf_id, last'.req.page_num, last'.req.dpi,
                                 last'.req.filters))]_vars

\* C30's case: the second of two identical filter requests on cold caches has
\* been answered from the filter cache: one hit after the two misses.
C30_Witness ==
    /\ FilterRequestServed(last)
    /\ last.work = [NoWork EXCEPT !.filter_lookups = 1,
                                  !.touched = <<FilterKey(IdA, 1, Dpi, Bright)>>]
    /\ last.req = Request(IdA, 1, Dpi, Bright)
    /\ cache_stats = [hits |-> 1, misses |-> 2, evictions |-> 0]
    /\ last.image = Filtered(PageImage(IdA, 1, Dpi), Bright)
    /\ DictHas(render_cache, RenderKey(IdA, 1, Dpi))

====
